---------------------------- MODULE Spec2Model ----------------------------
(***************************************************************************)
(* Model of pb-toolkit's reflection based RPC server (pkg/rpc/server.go):  *)
(* service registration, the two dispatch routes and the slug conversion;  *)
(* of the query DSL (pkg/dsl) and of the example server's WeChat handler.  *)
(*                                                                         *)
(* Each part has its own specification over its own variables; the         *)
(* variables of the other parts stay at their idle values.                 *)
(*                                                                         *)
(* Go strings are byte strings.  A string is modelled as a sequence of     *)
(* bytes, each byte written as a one-letter string for ASCII ("a", "-")    *)
(* and as "xHH" for a byte >= 0x80.                                        *)
(***************************************************************************)
EXTENDS Integers, Sequences, FiniteSets, TLC

VARIABLES
    services,   \* Server.services: service name -> RPCService
    last,       \* the last completed call (RegisterService / handle / handleGet) and its result
    replaced,   \* history: the descriptor the most recent RegisterService overwrote, <<>> if none
    kebab,      \* input of kebabToPascal under SpecKebab
    pascal,     \* whether it was called, and its result
    heap,       \* SpecConc: the RPCService objects allocated, by address
    reg,        \* SpecConc: the goroutine running RegisterService: its position and locals
    reqs,       \* SpecConc: the goroutines serving requests: their positions and locals
    fatal,      \* SpecConc: the Go runtime has thrown a fatal error, the process is gone
    query,      \* SpecDsl: the QueryBuilder under construction
    hist,       \* SpecDsl: the calls made on the builder since Query(), oldest first
    dcall,      \* SpecDsl: the last List/First call, what it asked of the record store, its result
    records,    \* SpecDsl, SpecWechat: the records of the collection, in store order
    wcall,      \* SpecWechat: the last call on the WechatAuthHandler and its result
    apiTokenCache,      \* SpecToken: package wechat's cached API token, <<>> for nil
    apiTokenCacheTime,  \* SpecToken: the time the token was cached, in seconds
    now,        \* SpecToken: the clock, in seconds
    tcall       \* SpecToken: the last call on a WechatAuth and its result

\* Bookkeeping: the variables of each part, for the UNCHANGED clauses
rpcVars == <<services, last, replaced>>
kebabVars == <<kebab, pascal>>
concVars == <<heap, reg, reqs, fatal>>
dslVars == <<query, hist, dcall>>
storeVars == <<records, wcall>>
tokenVars == <<apiTokenCache, apiTokenCacheTime, now, tcall>>

vars == <<services, last, replaced, kebab, pascal, heap, reg, reqs, fatal,
          query, hist, dcall, records, wcall,
          apiTokenCache, apiTokenCacheTime, now, tcall>>

None == "none"

\* The values of the variables a specification does not use
ConcIdle == heap = <<>> /\ reg = None /\ reqs = <<>> /\ fatal = FALSE
DslIdle == query = None /\ hist = <<>> /\ dcall = None
StoreIdle == records = <<>> /\ wcall = None
TokenIdle == apiTokenCache = <<>> /\ apiTokenCacheTime = 0 /\ now = 0 /\ tcall = None

-----------------------------------------------------------------------------
(* Bytes, runes and the strings package                                    *)

LowerAscii == {"a", "b", "e", "g", "t"}
UpperAscii == {"A", "B", "E", "G", "T"}
OtherAscii == {"-", "4", "2"}
AsciiBytes == LowerAscii \cup UpperAscii \cup OtherAscii

\* 'a' - 'A' on the letters of the model
asciiUpper ==
    [c \in AsciiBytes |->
        CASE c = "a" -> "A" [] c = "b" -> "B" [] c = "e" -> "E"
          [] c = "g" -> "G" [] c = "t" -> "T" [] OTHER -> c]

asciiLower ==
    [c \in AsciiBytes |->
        CASE c = "A" -> "a" [] c = "B" -> "b" [] c = "E" -> "e"
          [] c = "G" -> "g" [] c = "T" -> "t" [] OTHER -> c]

\* utf8.RuneError, U+FFFD
RuneError == "U+FFFD"

\* The runes of the model: the ASCII bytes, U+00E9 (e acute), U+00C9 (E acute), U+FFFD
Runes == AsciiBytes \cup {"U+00E9", "U+00C9", RuneError}

\* utf8.EncodeRune
EncodeRune(r) ==
    CASE r = "U+00E9" -> <<"xC3", "xA9">>
      [] r = "U+00C9" -> <<"xC3", "x89">>
      [] r = RuneError -> <<"xEF", "xBF", "xBD">>
      [] OTHER -> <<r>>

\* utf8.DecodeRuneInString(s[i:]): the rune at byte i and its width; a byte
\* that starts no well-formed encoding decodes as RuneError, width 1.
DecodeRune(s, i) ==
    IF s[i] \in AsciiBytes THEN [rune |-> s[i], width |-> 1, ok |-> TRUE]
    ELSE IF s[i] = "xC3" /\ i + 1 <= Len(s) /\ s[i + 1] = "xA9"
         THEN [rune |-> "U+00E9", width |-> 2, ok |-> TRUE]
    ELSE IF s[i] = "xC3" /\ i + 1 <= Len(s) /\ s[i + 1] = "x89"
         THEN [rune |-> "U+00C9", width |-> 2, ok |-> TRUE]
    ELSE IF s[i] = "xEF" /\ i + 2 <= Len(s) /\ s[i + 1] = "xBF" /\ s[i + 2] = "xBD"
         THEN [rune |-> RuneError, width |-> 3, ok |-> TRUE]
    ELSE [rune |-> RuneError, width |-> 1, ok |-> FALSE]

\* unicode.ToUpper / unicode.ToLower
unicodeToUpper(r) ==
    IF r \in AsciiBytes THEN asciiUpper[r]
    ELSE IF r = "U+00E9" THEN "U+00C9" ELSE r

unicodeToLower(r) ==
    IF r \in AsciiBytes THEN asciiLower[r]
    ELSE IF r = "U+00C9" THEN "U+00E9" ELSE r

IsASCII(s) == \A i \in 1..Len(s) : s[i] \in AsciiBytes

\* strings.Map(unicode.ToUpper, s): range over the runes of s from byte i,
\* writing the mapped rune; an ill-formed byte is written as U+FFFD.
RECURSIVE MapToUpper(_, _)
MapToUpper(s, i) ==
    IF i > Len(s) THEN <<>>
    ELSE LET d == DecodeRune(s, i)
         IN  EncodeRune(unicodeToUpper(d.rune)) \o MapToUpper(s, i + d.width)

RECURSIVE MapToLower(_, _)
MapToLower(s, i) ==
    IF i > Len(s) THEN <<>>
    ELSE LET d == DecodeRune(s, i)
         IN  EncodeRune(unicodeToLower(d.rune)) \o MapToLower(s, i + d.width)

\* strings.ToUpper: bytewise for an ASCII string, strings.Map otherwise
ToUpper(s) ==
    IF IsASCII(s) THEN [i \in 1..Len(s) |-> asciiUpper[s[i]]]
    ELSE MapToUpper(s, 1)

\* strings.ToLower
ToLower(s) ==
    IF IsASCII(s) THEN [i \in 1..Len(s) |-> asciiLower[s[i]]]
    ELSE MapToLower(s, 1)

\* strings.Split(s, "-"): the substrings between hyphens, empty ones kept
RECURSIVE Split(_)
Split(s) ==
    IF \A i \in 1..Len(s) : s[i] # "-" THEN <<s>>
    ELSE LET k == CHOOSE i \in 1..Len(s) :
                      s[i] = "-" /\ \A j \in 1..(i - 1) : s[j] # "-"
         IN  <<SubSeq(s, 1, k - 1)>> \o Split(SubSeq(s, k + 1, Len(s)))

\* strings.Join(parts, "")
RECURSIVE Join(_)
Join(parts) ==
    IF parts = <<>> THEN <<>> ELSE Head(parts) \o Join(Tail(parts))

\* Mutant of CapitalizePart: the whole part is upper-cased
CapitalizePartWhole(part) ==
    ToUpper(part)

\* part[:1] upper-cased + part[1:] lower-cased, for a non-empty part
\* (the slices are byte slices)
CapitalizePart(part) ==
    ToUpper(SubSeq(part, 1, 1)) \o ToLower(SubSeq(part, 2, Len(part)))

\* kebabToPascal
kebabToPascal(s) ==
    LET parts == Split(s)
        conv  == [i \in 1..Len(parts) |->
                    IF Len(parts[i]) > 0 THEN CapitalizePart(parts[i]) ELSE parts[i]]
    IN  Join(conv)

-----------------------------------------------------------------------------
(* Go types and service instances as reflection sees them                  *)

\* A reflect.Type: its name, its Kind and whether it implements error.
\* Every type below is a named (predeclared or defined) type.
StringT == [name |-> "string", kind |-> "String", isError |-> FALSE]
IDT     == [name |-> "ID", kind |-> "String", isError |-> FALSE]       \* type ID string
ReqT    == [name |-> "TestRequest", kind |-> "Struct", isError |-> FALSE]
RespT   == [name |-> "TestResponse", kind |-> "Struct", isError |-> FALSE]
ErrorT  == [name |-> "error", kind |-> "Interface", isError |-> TRUE]
RecvT   == [name |-> "*Service", kind |-> "Ptr", isError |-> FALSE]

\* The nil reflect.Type stored in RPCMethod.Type of a parameterless method
NilType == [name |-> "nil", kind |-> "nil", isError |-> FALSE]

\* The nil interface{} passed as a service, and the nil error
NilService == "nil"
NilErr == "nil"

\* The service instances of the model.  svcA has the shapes of the test
\* fixture TestService; svcB and svcC vary them.
Instances == {"svcA", "svcB", "svcC"}

\* A declared method: name, In types (receiver first), Out types.
Op(name, ins, outs) == [name |-> name, ins |-> ins, outs |-> outs]

DeclaredMethods(service) ==
    CASE service = "svcA" ->
            { Op(<<"A", "b">>, <<RecvT, ReqT>>, <<RespT, ErrorT>>),              \* like CreateUser
              Op(<<"G", "e", "t", "A">>, <<RecvT, StringT>>, <<RespT, ErrorT>>), \* like GetUser
              Op(<<"G", "e", "t", "B">>, <<RecvT>>, <<RespT, ErrorT>>),          \* like GetStats
              Op(<<"B", "a">>, <<RecvT>>, <<ErrorT>>),                           \* like RefreshCache
              Op(<<"B", "b">>, <<RecvT, ReqT>>, <<RespT>>),                      \* like InvalidMethod1
              Op(<<"A", "a">>, <<RecvT, ReqT, StringT>>, <<RespT, ErrorT>>),     \* like InvalidMethod2
              Op(<<"a", "b">>, <<RecvT, ReqT>>, <<RespT, ErrorT>>) }             \* unexported
      [] service = "svcB" ->
            { Op(<<"G", "e", "t", "A">>, <<RecvT, IDT>>, <<ErrorT>>),
              Op(<<"G", "e", "t", "B">>, <<RecvT, StringT>>, <<ErrorT>>),
              Op(<<"G", "e", "t", "A", "b">>, <<RecvT, ReqT>>, <<RespT, ErrorT>>),
              Op(<<"B", "a">>, <<RecvT, ReqT>>, <<ErrorT>>),
              Op(<<"A", "b">>, <<RecvT, ReqT>>, <<>>),
              Op(<<"B", "b">>, <<RecvT>>, <<RespT, RespT, ErrorT>>),
              Op(<<"A", "a">>, <<RecvT>>, <<ErrorT, RespT>>) }
      [] service = "svcC" ->
            { Op(<<"B", "b">>, <<RecvT, ReqT>>, <<RespT>>),
              Op(<<"a">>, <<RecvT>>, <<ErrorT>>) }
      [] OTHER -> {}

\* reflect.Method.PkgPath: empty for an exported (upper-case) name
PkgPath(op) == IF op.name[1] \in UpperAscii THEN "" ELSE "main"

\* reflect.TypeOf(service).Method(i), 0 <= i < NumMethod(): for a concrete
\* type reflection lists the exported methods only
ReflectMethods(service) == {op \in DeclaredMethods(service) : PkgPath(op) = ""}

\* The zero reflect.Value that MethodByName returns when there is no such method
NoMethod == Op(<<>>, <<>>, <<>>)

\* reflect.Value.MethodByName
MethodByName(service, name) ==
    IF \E op \in ReflectMethods(service) : op.name = name
    THEN CHOOSE op \in ReflectMethods(service) : op.name = name
    ELSE NoMethod

-----------------------------------------------------------------------------
(* RegisterService                                                         *)

\* Mutant of Skipped: the "last return type is error" check is left out
SkippedNoErrorCheck(op) ==
    LET numIn  == Len(op.ins)
        numOut == Len(op.outs)
    IN  \/ PkgPath(op) # ""
        \/ (numIn # 1 /\ numIn # 2)
        \/ (numOut # 1 /\ numOut # 2)

\* the four "continue" checks of the registration loop
Skipped(op) ==
    LET numIn  == Len(op.ins)
        numOut == Len(op.outs)
    IN  \/ PkgPath(op) # ""
        \/ (numIn # 1 /\ numIn # 2)
        \/ (numOut # 1 /\ numOut # 2)
        \/ ~ op.outs[numOut].isError

\* Mutant of MethodInfo: every accepted method is marked as returning a result
MethodInfoAlwaysResult(op) ==
    [ Method     |-> op.name,
      HasParams  |-> Len(op.ins) = 2,
      Type       |-> IF Len(op.ins) = 2 THEN op.ins[2] ELSE NilType,
      HasResult  |-> TRUE,
      ResultType |-> op.outs[1] ]

\* the RPCMethod built for an accepted method
MethodInfo(op) ==
    [ Method     |-> op.name,
      HasParams  |-> Len(op.ins) = 2,
      Type       |-> IF Len(op.ins) = 2 THEN op.ins[2] ELSE NilType,
      HasResult  |-> Len(op.outs) = 2,
      ResultType |-> IF Len(op.outs) = 2 THEN op.outs[1] ELSE NilType ]

\* svc.methods after the loop
BuildMethods(service) ==
    LET accepted == {op \in ReflectMethods(service) : ~ Skipped(op)}
    IN  [n \in {op.name : op \in accepted} |->
            MethodInfo(CHOOSE op \in accepted : op.name = n)]

\* make(map[string]*RPCMethod)
EmptyMethods == [n \in {} |-> NilType]

\* Mutant of Store: an existing descriptor keeps its old methods and the new ones are added
StoreMerge(svcs, name, svc) ==
    [k \in (DOMAIN svcs) \cup {name} |->
        IF k # name THEN svcs[k]
        ELSE IF name \notin DOMAIN svcs THEN svc
        ELSE [svc EXCEPT !.methods =
                [n \in (DOMAIN svc.methods) \cup (DOMAIN svcs[name].methods) |->
                    IF n \in DOMAIN svc.methods THEN svc.methods[n]
                    ELSE svcs[name].methods[n]]]]

\* Mutant of Store: a name that is already registered is dropped instead of overwritten
StoreDropExisting(svcs, name, svc) ==
    IF name \in DOMAIN svcs
    THEN [k \in (DOMAIN svcs) \ {name} |-> svcs[k]]
    ELSE [k \in (DOMAIN svcs) \cup {name} |-> IF k = name THEN svc ELSE svcs[k]]

\* Mutant of Store: the map is made anew and holds the new descriptor only
StoreAlone(svcs, name, svc) == [k \in {name} |-> svc]

\* s.services[name] = svc
Store(svcs, name, svc) ==
    [k \in (DOMAIN svcs) \cup {name} |-> IF k = name THEN svc ELSE svcs[k]]

\* Mutant of RegisterService: a nil service is rejected with an error and not stored
RegisterServiceRejectNil(svcs, name, service) ==
    IF service = NilService
    THEN [services |-> svcs, err |-> "service is nil"]
    ELSE [services |-> Store(svcs, name,
                             [service |-> service, methods |-> BuildMethods(service),
                              serviceName |-> name]),
          err |-> NilErr]

\* Mutant of RegisterService: a nil service is ignored, the map is left as it was
RegisterServiceIgnoreNil(svcs, name, service) ==
    IF service = NilService
    THEN [services |-> svcs, err |-> NilErr]
    ELSE [services |-> Store(svcs, name,
                             [service |-> service, methods |-> BuildMethods(service),
                              serviceName |-> name]),
          err |-> NilErr]

\* RegisterService(name, service): the services map afterwards and the error returned
RegisterService(svcs, name, service) ==
    LET empty == [service |-> service, methods |-> EmptyMethods, serviceName |-> name]
    IN  IF service = NilService
        THEN [services |-> Store(svcs, name, empty), err |-> NilErr]
        ELSE [services |-> Store(svcs, name,
                                 [empty EXCEPT !.methods = BuildMethods(service)]),
              err |-> NilErr]

-----------------------------------------------------------------------------
(* Responses, reflective calls                                             *)

StatusOK == 200
StatusBadRequest == 400
StatusNotFound == 404
StatusInternalServerError == 500

\* e.JSON(status, payload): the response the handler returns.  calls lists
\* the methods invoked on service instances, bound tells whether
\* e.BindBody was called.
JSON(status, payload, calls, bound) ==
    [status |-> status, payload |-> payload, panicked |-> FALSE,
     calls |-> calls, bound |-> bound]

\* the handler panics: it writes no response of its own
Panic(reason, calls, bound) ==
    [status |-> 0, payload |-> <<"panic", reason>>, panicked |-> TRUE,
     calls |-> calls, bound |-> bound]

\* the payloads built with fmt.Errorf
ServiceNotFound(serviceName) == <<"Service not found", serviceName>>
MethodNotFound(methodName, serviceName) == <<"Method not found in service", methodName, serviceName>>
InvalidParameters == <<"Invalid parameters">>
NotStringParameter(methodName) == <<"Method does not accept a string parameter", methodName>>

\* map[string]string{"status": "ok"}
StatusOkBody == [status |-> "ok"]

\* The request bodies of the model: one that e.BindBody decodes, one that it rejects
Bodies == {[decodable |-> TRUE, data |-> "d1"], [decodable |-> FALSE, data |-> "junk"]}

\* The failure values a method may report, NilErr for none
Errors == {NilErr, "ErrNoRows", "ErrOther"}

\* A reflect.Value: a type and the data it holds
Value(type, data) == [type |-> type, data |-> data]

\* reflect.Type.AssignableTo for the named types of the model: two distinct
\* named types are never assignable to one another, and no parameter type
\* of the model is an interface
AssignableTo(xt, targ) == xt = targ

\* Whether methodValue.Call(args) panics before the method runs: wrong
\* call of a zero Value, wrong number of arguments, or an argument not
\* assignable to its parameter
CallPanics(op, args) ==
    \/ op = NoMethod
    \/ Len(args) # Len(op.ins) - 1
    \/ \E i \in 1..Len(args) : ~ AssignableTo(args[i].type, op.ins[i + 1])

\* The record of one invocation
Invocation(service, op, args) ==
    [recv |-> service, method |-> op.name, args |-> [i \in 1..Len(args) |-> args[i].data]]

\* What the invoked method returns: its Out values, the failure value last.
\* The result value names the method and the arguments that produced it.
Results(service, op, args, opErr) ==
    IF Len(op.outs) = 2
    THEN <<[by |-> op.name, on |-> service,
            args |-> [i \in 1..Len(args) |-> args[i].data]], opErr>>
    ELSE <<opErr>>

-----------------------------------------------------------------------------
(* The handlers                                                            *)

\* Mutant of RespondRPC: a failure-only method that succeeds gets an empty body
RespondRPCEmptyBody(method, results, calls, bound) ==
    IF method.HasResult
    THEN IF results[2] # NilErr
         THEN JSON(StatusInternalServerError, results[2], calls, bound)
         ELSE JSON(StatusOK, results[1], calls, bound)
    ELSE IF results[1] # NilErr
         THEN JSON(StatusInternalServerError, results[1], calls, bound)
         ELSE JSON(StatusOK, <<>>, calls, bound)

\* handleRPC, "Check for error": the response for the values the method returned
RespondRPC(method, results, calls, bound) ==
    IF method.HasResult
    THEN IF results[2] # NilErr
         THEN JSON(StatusInternalServerError, results[2], calls, bound)
         ELSE JSON(StatusOK, results[1], calls, bound)
    ELSE IF results[1] # NilErr
         THEN JSON(StatusInternalServerError, results[1], calls, bound)
         ELSE JSON(StatusOK, StatusOkBody, calls, bound)

\* Mutant of RespondRPCGet: a "no rows" failure is answered with NotFound
RespondRPCGetNotFound(method, results, calls) ==
    LET err == results[Len(results)]
    IN  IF err = "ErrNoRows" THEN JSON(StatusNotFound, err, calls, FALSE)
        ELSE IF err # NilErr THEN JSON(StatusInternalServerError, err, calls, FALSE)
        ELSE IF method.HasResult THEN JSON(StatusOK, results[1], calls, FALSE)
        ELSE JSON(StatusOK, StatusOkBody, calls, FALSE)

\* handleRPCGet, "Check for error"
RespondRPCGet(method, results, calls) ==
    IF method.HasResult
    THEN IF results[2] # NilErr
         THEN JSON(StatusInternalServerError, results[2], calls, FALSE)
         ELSE JSON(StatusOK, results[1], calls, FALSE)
    ELSE IF results[1] # NilErr
         THEN JSON(StatusInternalServerError, results[1], calls, FALSE)
         ELSE JSON(StatusOK, StatusOkBody, calls, FALSE)

\* Mutant of InvokeRPC: the method is called before the bind error is looked at
InvokeRPCCallFirst(service, method, body, opErr) ==
    LET op   == MethodByName(service.service, method.Method)
        args == IF method.HasParams THEN <<Value(method.Type, body.data)>> ELSE <<>>
        call == <<Invocation(service.service, op, args)>>
    IN  IF method.HasParams /\ ~ body.decodable
        THEN JSON(StatusBadRequest, InvalidParameters, call, TRUE)
        ELSE IF CallPanics(op, args)
        THEN Panic("reflect: Call", <<>>, method.HasParams)
        ELSE RespondRPC(method, Results(service.service, op, args, opErr),
                        call, method.HasParams)

\* Mutant of InvokeRPC: the body is decoded for every method, with or
\* without a parameter
InvokeRPCAlwaysBind(service, method, body, opErr) ==
    LET op   == MethodByName(service.service, method.Method)
        args == IF method.HasParams THEN <<Value(method.Type, body.data)>> ELSE <<>>
    IN  IF ~ body.decodable
        THEN JSON(StatusBadRequest, InvalidParameters, <<>>, TRUE)
        ELSE IF CallPanics(op, args)
        THEN Panic("reflect: Call", <<>>, TRUE)
        ELSE RespondRPC(method, Results(service.service, op, args, opErr),
                        <<Invocation(service.service, op, args)>>, TRUE)

\* handleRPC, "Call the method": bind the body when the method has a
\* parameter, call the method, answer with its results
InvokeRPC(service, method, body, opErr) ==
    LET op == MethodByName(service.service, method.Method)
    IN  IF method.HasParams
        THEN IF ~ body.decodable
             THEN JSON(StatusBadRequest, InvalidParameters, <<>>, TRUE)
             ELSE LET args == <<Value(method.Type, body.data)>>
                  IN  IF CallPanics(op, args)
                      THEN Panic("reflect: Call", <<>>, TRUE)
                      ELSE RespondRPC(method, Results(service.service, op, args, opErr),
                                      <<Invocation(service.service, op, args)>>, TRUE)
        ELSE IF CallPanics(op, <<>>)
             THEN Panic("reflect: Call", <<>>, FALSE)
             ELSE RespondRPC(method, Results(service.service, op, <<>>, opErr),
                             <<Invocation(service.service, op, <<>>)>>, FALSE)

\* handleRPC(e, serviceName, methodName); body is the request body, opErr
\* the failure value the method reports if it is invoked
handleRPC(svcs, serviceName, methodName, body, opErr) ==
    IF serviceName \notin DOMAIN svcs
    THEN JSON(StatusNotFound, ServiceNotFound(serviceName), <<>>, FALSE)
    ELSE LET service == svcs[serviceName]
         IN  IF methodName \notin DOMAIN service.methods
             THEN JSON(StatusNotFound, MethodNotFound(methodName, serviceName), <<>>, FALSE)
             ELSE InvokeRPC(service, service.methods[methodName], body, opErr)

\* Mutant of GetMethodName: the "Get" prefix is forgotten
GetMethodNameNoPrefix(entityName) == entityName

\* methodName := "Get" + entityName
GetMethodName(entityName) == <<"G", "e", "t">> \o entityName

\* handleRPCGet from "Check if the method accepts a string parameter" on.
\* argType.Kind() on the nil Type of a parameterless method is a nil
\* dereference; Call is given reflect.ValueOf(id), a value of type string.
InvokeRPCGet(service, method, methodName, id, opErr) ==
    LET op   == MethodByName(service.service, method.Method)
        args == <<Value(StringT, id)>>
    IN  IF method.Type = NilType
        THEN Panic("nil pointer dereference", <<>>, FALSE)
        ELSE IF method.Type.kind # "String"
        THEN JSON(StatusBadRequest, NotStringParameter(methodName), <<>>, FALSE)
        ELSE IF CallPanics(op, args)
        THEN Panic("reflect: Call", <<>>, FALSE)
        ELSE RespondRPCGet(method, Results(service.service, op, args, opErr),
                           <<Invocation(service.service, op, args)>>)

\* handleRPCGet(e, serviceName, entityName, id)
handleRPCGet(svcs, serviceName, entityName, id, opErr) ==
    IF serviceName \notin DOMAIN svcs
    THEN JSON(StatusNotFound, ServiceNotFound(serviceName), <<>>, FALSE)
    ELSE LET service    == svcs[serviceName]
             methodName == GetMethodName(entityName)
         IN  IF methodName \notin DOMAIN service.methods
             THEN JSON(StatusNotFound, MethodNotFound(methodName, serviceName), <<>>, FALSE)
             ELSE InvokeRPCGet(service, service.methods[methodName], methodName, id, opErr)

\* handle: POST /{service}/{method}
handle(svcs, serv, method, body, opErr) ==
    handleRPC(svcs, serv, kebabToPascal(method), body, opErr)

\* handleGet: GET /{service}/{entity}/{id}
handleGet(svcs, serv, entity, id, opErr) ==
    handleRPCGet(svcs, serv, kebabToPascal(entity), id, opErr)

-----------------------------------------------------------------------------
(* The server as a state machine                                           *)

\* Service names used in registrations, and one more that requests may
\* name: it differs from a registered name by case only
ServiceNames == {"", "test"}
PathServices == ServiceNames \cup {"Test"}

\* The path segments requests carry
Slugs == { <<>>, <<"a">>, <<"b">>, <<"a", "b">>, <<"a", "-", "b">>, <<"B", "A">>,
           <<"g", "e", "t", "-", "a">> }
Ids == { <<"4", "2">>, <<"a", "-", "b">> }

\* kebabToPascal not called yet
NotCalled == [called |-> FALSE, result |-> <<>>]

NoCall ==
    [op |-> "none", serv |-> None, slug |-> <<>>, id |-> <<>>, body |-> None,
     instance |-> None, err |-> None, opErr |-> None, resp |-> None]

\* NewServer()
Init ==
    /\ services = [n \in {} |-> None]
    /\ last = NoCall
    /\ replaced = <<>>
    /\ kebab = <<>>
    /\ pascal = NotCalled
    /\ ConcIdle /\ DslIdle /\ StoreIdle /\ TokenIdle

\* RegisterService(name, service)
Register(name, service) ==
    LET r == RegisterService(services, name, service)
    IN  /\ services' = r.services
        /\ replaced' = IF name \in DOMAIN services THEN <<services[name]>> ELSE <<>>
        /\ last' = [NoCall EXCEPT !.op = "register", !.serv = name,
                                  !.instance = service, !.err = r.err]
        /\ UNCHANGED <<kebabVars, concVars, dslVars, storeVars, tokenVars>>

\* The failure values the method of a request may report: the method's
\* result is drawn only when the request gets as far as running it
Reported(resp) == IF resp.calls = <<>> THEN {} ELSE Errors \ {NilErr}

\* A POST request served by handle
Post(serv, slug, body) ==
    \E opErr \in {NilErr} \cup Reported(handle(services, serv, slug, body, NilErr)) :
        LET resp == handle(services, serv, slug, body, opErr)
        IN  /\ last' = [NoCall EXCEPT !.op = "post", !.serv = serv, !.slug = slug,
                                      !.body = body, !.resp = resp,
                                      !.opErr = IF resp.calls = <<>> THEN None ELSE opErr]
            /\ UNCHANGED <<services, replaced, kebabVars, concVars, dslVars, storeVars, tokenVars>>

\* A GET request served by handleGet
Get(serv, entity, id) ==
    \E opErr \in {NilErr} \cup Reported(handleGet(services, serv, entity, id, NilErr)) :
        LET resp == handleGet(services, serv, entity, id, opErr)
        IN  /\ last' = [NoCall EXCEPT !.op = "get", !.serv = serv, !.slug = entity,
                                      !.id = id, !.resp = resp,
                                      !.opErr = IF resp.calls = <<>> THEN None ELSE opErr]
            /\ UNCHANGED <<services, replaced, kebabVars, concVars, dslVars, storeVars, tokenVars>>

Next ==
    \/ \E name \in ServiceNames, service \in Instances \cup {NilService} :
           Register(name, service)
    \/ \E serv \in PathServices, slug \in Slugs, body \in Bodies :
           Post(serv, slug, body)
    \/ \E serv \in PathServices, entity \in Slugs, id \in Ids :
           Get(serv, entity, id)

Spec == Init /\ [][Next]_vars

-----------------------------------------------------------------------------
(* kebabToPascal on its own: every byte string up to MaxSlugLen            *)

\* The bytes slugs are made of: ASCII letters, the hyphen and the two bytes
\* of U+00E9
KebabAlphabet == {"a", "A", "2", "-", "xC3", "xA9"}
MaxSlugLen == 4
KebabInputs == UNION {[1..n -> KebabAlphabet] : n \in 0..MaxSlugLen}

KebabInit ==
    /\ kebab \in KebabInputs
    /\ pascal = NotCalled
    /\ services = [n \in {} |-> None]
    /\ last = NoCall
    /\ replaced = <<>>
    /\ ConcIdle /\ DslIdle /\ StoreIdle /\ TokenIdle

\* kebabToPascal(kebab)
Convert ==
    /\ ~ pascal.called
    /\ pascal' = [called |-> TRUE, result |-> kebabToPascal(kebab)]
    /\ UNCHANGED <<kebab, rpcVars, concVars, dslVars, storeVars, tokenVars>>

KebabNext == Convert

SpecKebab == KebabInit /\ [][KebabNext]_vars

-----------------------------------------------------------------------------
(* Vocabulary of the properties                                            *)

IsDispatch == last.op \in {"post", "get"}

\* The identifier the last request asks for
WantedMethod ==
    IF last.op = "post" THEN kebabToPascal(last.slug)
    ELSE <<"G", "e", "t">> \o kebabToPascal(last.slug)

ServiceKnown == last.serv \in DOMAIN services
MethodKnown == ServiceKnown /\ WantedMethod \in DOMAIN services[last.serv].methods

\* The outcomes of the error taxonomy, read off the response
NotFoundService ==
    /\ last.resp.status = StatusNotFound
    /\ last.resp.payload[1] = "Service not found"
NotFoundMethod ==
    /\ last.resp.status = StatusNotFound
    /\ last.resp.payload[1] = "Method not found in service"
BadRequestDecode ==
    /\ last.resp.status = StatusBadRequest
    /\ last.resp.payload[1] = "Invalid parameters"
BadRequestSignatureMismatch ==
    /\ last.resp.status = StatusBadRequest
    /\ last.resp.payload[1] = "Method does not accept a string parameter"

\* The eligibility rule of the specification, on a declared method
Exported(op) == op.name[1] \in UpperAscii
LogicalParams(op) == Len(op.ins) - 1
Eligible(op) ==
    /\ Exported(op)
    /\ LogicalParams(op) \in {0, 1}
    /\ \/ Len(op.outs) = 1 /\ op.outs[1].isError
       \/ Len(op.outs) = 2 /\ op.outs[2].isError
EligibleNames(service) == {op.name : op \in {o \in DeclaredMethods(service) : Eligible(o)}}

-----------------------------------------------------------------------------
(* C1..C10                                                                 *)

C2_NotFoundOutcomes ==
    IsDispatch =>
        /\ ~ ServiceKnown =>
               /\ NotFoundService
               /\ last.resp.payload = <<"Service not found", last.serv>>
        /\ (ServiceKnown /\ ~ MethodKnown) =>
               /\ NotFoundMethod
               /\ last.resp.payload =
                      <<"Method not found in service", WantedMethod, last.serv>>
        /\ (NotFoundService \/ NotFoundMethod) => ~ MethodKnown

\* C2 witness: a fetch-by-id on a registered service whose method table
\* lacks Get<Entity> ended in NotFoundMethod.
C2_Witness ==
    /\ last.op = "get"
    /\ ServiceKnown
    /\ services[last.serv].service # NilService
    /\ ~ MethodKnown
    /\ NotFoundMethod

\* C3 (as claimed): a fetch-by-id whose resolved method has any parameter
\* shape other than a single text parameter ends in
\* BadRequestSignatureMismatch without invoking the method.
C3_NonTextShapeIsMismatch ==
    (last.op = "get" /\ MethodKnown) =>
        LET method == services[last.serv].methods[WantedMethod]
        IN  (~ method.HasParams \/ method.Type.kind # "String") =>
                /\ BadRequestSignatureMismatch
                /\ last.resp.calls = <<>>

\* C4: a request that ends in NotFoundService, NotFoundMethod,
\* BadRequestDecode or BadRequestSignatureMismatch invoked no operation.
C4_ErrorsBeforeInvocation ==
    (IsDispatch /\ ( \/ NotFoundService \/ NotFoundMethod
                     \/ BadRequestDecode \/ BadRequestSignatureMismatch )) =>
        last.resp.calls = <<>>

\* C4 witness: an invoke-by-name of a method with a parameter, with an
\* undecodable body, ended in BadRequestDecode with nothing invoked.
C4_Witness ==
    /\ last.op = "post"
    /\ MethodKnown
    /\ ~ last.body.decodable
    /\ BadRequestDecode
    /\ last.resp.calls = <<>>

\* C5: after a registration that overwrote a descriptor, the descriptor
\* under that name holds the new instance and exactly its eligible
\* operations; a dispatch under that name for an operation the old
\* descriptor had and the new instance does not make eligible ends in
\* NotFoundMethod, and whatever a dispatch invokes is invoked on the
\* instance now registered.
C5_ReRegistrationReplaces ==
    replaced # <<>> =>
        LET n == replaced[1].serviceName
        IN  /\ n \in DOMAIN services
            /\ DOMAIN services[n].methods = EligibleNames(services[n].service)
            /\ last.op = "register" => services[n].service = last.instance
            /\ (IsDispatch /\ last.serv = n) =>
                   /\ (/\ WantedMethod \in DOMAIN replaced[1].methods
                       /\ WantedMethod \notin EligibleNames(services[n].service))
                          => NotFoundMethod
                   /\ \A i \in 1..Len(last.resp.calls) :
                          last.resp.calls[i].recv = services[n].service

\* C5 witness: svcA was overwritten by another instance and a request for a
\* method only svcA published was answered NotFoundMethod.
C5_Witness ==
    /\ replaced # <<>>
    /\ replaced[1].service = "svcA"
    /\ IsDispatch
    /\ last.serv = replaced[1].serviceName
    /\ services[last.serv].service \in Instances \ {"svcA"}
    /\ WantedMethod \in DOMAIN replaced[1].methods
    /\ WantedMethod \notin DOMAIN services[last.serv].methods
    /\ NotFoundMethod

\* The method that ran for the last request
Ran == last.resp.calls[1]
RanDescriptor == services[last.serv].methods[Ran.method]

\* C7: when the invoked operation reports a failure the response is
\* InternalError carrying exactly that failure value, whatever the failure
\* is, and the result value returned with it is not sent.
C7_FailureIsInternalError ==
    (IsDispatch /\ last.resp.calls # <<>> /\ last.opErr # NilErr) =>
        /\ last.resp.status = StatusInternalServerError
        /\ last.resp.payload = last.opErr
        /\ last.resp.payload \in Errors \ {NilErr}

\* C7 witness: a fetch-by-id whose method ran and reported "no rows" was
\* answered 500 with that failure.
C7_Witness ==
    /\ last.op = "get"
    /\ last.resp.calls # <<>>
    /\ last.opErr = "ErrNoRows"
    /\ last.resp.status = StatusInternalServerError
    /\ last.resp.payload = "ErrNoRows"

\* C8: when the invoked operation reports no failure the response is OK;
\* its body is the returned value for a method with a result and the
\* non-empty marker {"status": "ok"} for a failure-only method.
C8_SuccessIsOK ==
    (IsDispatch /\ last.resp.calls # <<>> /\ last.opErr = NilErr) =>
        /\ last.resp.status = StatusOK
        /\ RanDescriptor.HasResult =>
               last.resp.payload =
                   [by |-> Ran.method, on |-> Ran.recv, args |-> Ran.args]
        /\ ~ RanDescriptor.HasResult =>
               /\ last.resp.payload = [status |-> "ok"]
               /\ DOMAIN last.resp.payload # {}

\* C8 witness: a parameterless failure-only method invoked by name reported
\* no failure and the response is OK with the success marker.
C8_Witness ==
    /\ last.op = "post"
    /\ last.resp.calls # <<>>
    /\ last.opErr = NilErr
    /\ ~ RanDescriptor.HasParams
    /\ ~ RanDescriptor.HasResult
    /\ last.resp.status = StatusOK
    /\ last.resp.payload = [status |-> "ok"]

\* C9 (as claimed): a fetch-by-id whose Get<Entity> method takes a
\* string-like parameter (kind string, plain or named) invokes that method
\* exactly once with the path id unchanged, binds no body and ends in OK
\* or InternalError.
C9_StringLikeGetInvokesOnce ==
    (last.op = "get" /\ MethodKnown) =>
        LET method == services[last.serv].methods[WantedMethod]
        IN  (method.HasParams /\ method.Type.kind = "String") =>
                /\ Len(last.resp.calls) = 1
                /\ Ran.method = WantedMethod
                /\ Ran.args = <<last.id>>
                /\ ~ last.resp.bound
                /\ last.resp.status \in {StatusOK, StatusInternalServerError}

\* C10: RegisterService returns no error for any name and any instance,
\* and right after it the registry holds a descriptor under that name with
\* the given instance as its handle.
C10_RegisterNeverFails ==
    last.op = "register" =>
        /\ last.err = NilErr
        /\ last.serv \in DOMAIN services
        /\ services[last.serv].service = last.instance
        /\ services[last.serv].serviceName = last.serv

\* C10 witness: nil was registered under the empty name.
C10_Witness ==
    /\ last.op = "register"
    /\ last.serv = ""
    /\ last.instance = NilService
    /\ last.err = NilErr
    /\ "" \in DOMAIN services
    /\ services[""].service = NilService

-----------------------------------------------------------------------------
(* C6: kebabToPascal against its description, on characters                *)

\* Whether the bytes of s from byte i on are well-formed UTF-8
RECURSIVE WellFormed(_, _)
WellFormed(s, i) ==
    IF i > Len(s) THEN TRUE
    ELSE LET d == DecodeRune(s, i) IN d.ok /\ WellFormed(s, i + d.width)

\* The characters of a well-formed string
RECURSIVE Chars(_, _)
Chars(s, i) ==
    IF i > Len(s) THEN <<>>
    ELSE LET d == DecodeRune(s, i) IN <<d.rune>> \o Chars(s, i + d.width)

\* The bytes of a sequence of characters
RECURSIVE Bytes(_)
Bytes(cs) == IF cs = <<>> THEN <<>> ELSE EncodeRune(Head(cs)) \o Bytes(Tail(cs))

\* The hyphen-delimited tokens of a sequence of characters
RECURSIVE Tokens(_)
Tokens(cs) ==
    IF \A i \in 1..Len(cs) : cs[i] # "-" THEN <<cs>>
    ELSE LET k == CHOOSE i \in 1..Len(cs) :
                      cs[i] = "-" /\ \A j \in 1..(i - 1) : cs[j] # "-"
         IN  <<SubSeq(cs, 1, k - 1)>> \o Tokens(SubSeq(cs, k + 1, Len(cs)))

\* A token with its first character upper-cased and the others lower-cased
Capitalized(tok) ==
    [i \in 1..Len(tok) |-> IF i = 1 THEN unicodeToUpper(tok[i]) ELSE unicodeToLower(tok[i])]

RECURSIVE ConcatCapitalized(_)
ConcatCapitalized(toks) ==
    IF toks = <<>> THEN <<>>
    ELSE Capitalized(Head(toks)) \o ConcatCapitalized(Tail(toks))

\* C6 (as claimed): the result of kebabToPascal is the concatenation, in
\* order, of the slug's hyphen-delimited tokens, each with its first
\* character upper-cased and the other characters lower-cased; the empty
\* slug gives the empty identifier and the result holds no hyphen.
C6_KebabToPascalByCharacters ==
    (pascal.called /\ WellFormed(kebab, 1)) =>
        /\ pascal.result = Bytes(ConcatCapitalized(Tokens(Chars(kebab, 1))))
        /\ kebab = <<>> => pascal.result = <<>>
        /\ \A i \in 1..Len(pascal.result) : pascal.result[i] # "-"

-----------------------------------------------------------------------------
(* Registration of a nil instance; registering twice                       *)

\* The descriptor RegisterService stores for a nil instance
NilDescriptor(name) ==
    [service |-> NilService, methods |-> EmptyMethods, serviceName |-> name]

\* C11: registering a nil instance under a name stores a descriptor with an
\* empty method table in place of any earlier descriptor of that name, so
\* that every later request for that service, on either route, is answered
\* NotFoundMethod (not NotFoundService) and invokes nothing.
C11_NilServiceHasNoMethods ==
    /\ (last.op = "register" /\ last.instance = NilService) =>
           /\ last.serv \in DOMAIN services
           /\ services[last.serv] = NilDescriptor(last.serv)
    /\ \A n \in DOMAIN services :
           services[n].service = NilService => DOMAIN services[n].methods = {}
    /\ (IsDispatch /\ ServiceKnown /\ services[last.serv].service = NilService) =>
           /\ NotFoundMethod
           /\ ~ NotFoundService
           /\ ~ last.resp.panicked
           /\ last.resp.calls = <<>>

\* A request for a method that the descriptor replaced by the nil
\* registration had published
C11_Witness ==
    /\ IsDispatch /\ ServiceKnown
    /\ services[last.serv].service = NilService
    /\ replaced # <<>>
    /\ replaced[1].serviceName = last.serv
    /\ WantedMethod \in DOMAIN replaced[1].methods
    /\ NotFoundMethod

\* C12: registration is an idempotent overwrite: RegisterService(n, X)
\* applied a second time, right after RegisterService(n, X), leaves the
\* whole registry (names, instance handles, method tables) as the first
\* application left it.
C12_RegisterTwiceIsRegisterOnce ==
    [][(/\ last.op = "register" /\ last'.op = "register"
        /\ last'.serv = last.serv /\ last'.instance = last.instance)
           => services' = services]_vars

\* A registration that overwrote the descriptor of the same instance under
\* the same name, with methods published
C12_Witness ==
    /\ last.op = "register"
    /\ replaced # <<>>
    /\ replaced[1].serviceName = last.serv
    /\ replaced[1].service = last.instance
    /\ DOMAIN replaced[1].methods # {}
    /\ replaced[1] = services[last.serv]

-----------------------------------------------------------------------------
(* The server step by step: one goroutine in RegisterService, request      *)
(* goroutines in handleRPC / handleRPCGet, all on the same Server.         *)
(*                                                                         *)
(* Server.services holds pointers: here the map gives addresses and heap   *)
(* gives the RPCService each address points to.                            *)

ConcName == "test"
ConcInstances == {"svcA", "svcB", NilService}
Requests == {"r1", "r2"}
ConcSlugs == { <<"a", "b">>, <<"B", "A">> }
ConcEntities == { <<"a">>, <<"b">> }
ConcIds == { <<"4", "2">> }

\* The bytes of the model in ascending order
ByteOrder == <<"-", "2", "4", "A", "B", "E", "G", "T", "a", "b", "e", "g", "t">>

\* serviceType.Method(i) for i = 0 .. NumMethod()-1: reflection lists the
\* methods sorted by name, that is by a < b on Go strings
MethodSeq(service) ==
    LET ByteRank(c) == CHOOSE i \in 1..Len(ByteOrder) : ByteOrder[i] = c
        RECURSIVE NameLess(_, _)
        NameLess(a, b) ==
            IF a = <<>> THEN b # <<>>
            ELSE IF b = <<>> THEN FALSE
            ELSE IF a[1] = b[1] THEN NameLess(Tail(a), Tail(b))
            ELSE ByteRank(a[1]) < ByteRank(b[1])
        RECURSIVE SortByName(_)
        SortByName(ops) ==
            IF ops = {} THEN <<>>
            ELSE LET m == CHOOSE x \in ops :
                              \A y \in ops \ {x} : NameLess(x.name, y.name)
                 IN  <<m>> \o SortByName(ops \ {m})
    IN  SortByName(ReflectMethods(service))

\* The empty services map of NewServer
NoServices == [n \in {} |-> None]

\* The RPCService a completed RegisterService(name, service) publishes
Descriptor(name, service) == RegisterService(NoServices, name, service).services[name]

\* The services map with the pointers followed
Deref(svcs, hp) == [n \in DOMAIN svcs |-> hp[svcs[n]]]

\* The zero values of a request's locals
NoRPCMethod ==
    [Method |-> <<>>, HasParams |-> FALSE, Type |-> NilType,
     HasResult |-> FALSE, ResultType |-> NilType]
NoResp == [status |-> 0, payload |-> <<>>, panicked |-> FALSE, calls |-> <<>>, bound |-> FALSE]

\* A request goroutine not started.  quiet: the request was accepted after
\* RegisterService had returned; stages: the stages it went through;
\* sent: the number of responses written with e.JSON
IdleReq ==
    [pc |-> "idle", route |-> None, serv |-> None, slug |-> <<>>,
     methodName |-> <<>>, id |-> <<>>,
     body |-> [decodable |-> FALSE, data |-> None], quiet |-> FALSE, svc |-> None,
     method |-> NoRPCMethod, recv |-> None, args |-> <<>>, bound |-> FALSE,
     calls |-> <<>>, results |-> <<>>, opErr |-> None, sent |-> 0, stages |-> <<>>,
     resp |-> NoResp]

IdleReg == [pc |-> "idle", service |-> None, svc |-> None, i |-> 0]

\* The server after setup: nothing registered, or svcA registered under
\* ConcName; no goroutine started
ConcInit ==
    /\ \/ services = NoServices /\ heap = [a \in {} |-> None]
       \/ /\ services = [n \in {ConcName} |-> "d0"]
          /\ heap = [a \in {"d0"} |-> Descriptor(ConcName, "svcA")]
    /\ reg = IdleReg
    /\ reqs = [r \in Requests |-> IdleReq]
    /\ fatal = FALSE
    /\ last = NoCall
    /\ replaced = <<>>
    /\ kebab = <<>>
    /\ pascal = NotCalled
    /\ DslIdle /\ StoreIdle /\ TokenIdle

ConcFrame == UNCHANGED <<last, replaced, kebabVars, dslVars, storeVars, tokenVars>>

\* RegisterService, svc := &RPCService{...}: the descriptor is allocated
\* with an empty method table.  A nil service goes straight to the map
\* assignment, as does a type without methods.
RegBegin(service) ==
    /\ ~ fatal
    /\ reg.pc = "idle"
    /\ heap' = [a \in (DOMAIN heap) \cup {"d1"} |->
                   IF a = "d1"
                   THEN [service |-> service, methods |-> EmptyMethods,
                         serviceName |-> ConcName]
                   ELSE heap[a]]
    /\ reg' = [pc |-> IF service = NilService \/ MethodSeq(service) = <<>>
                      THEN "publish" ELSE "loop",
               service |-> service, svc |-> "d1", i |-> 1]
    /\ UNCHANGED <<services, reqs, fatal>>
    /\ ConcFrame

\* svc.methods[method.Name] = methodInfo
AddMethod(methods, op) ==
    [n \in (DOMAIN methods) \cup {op.name} |->
        IF n = op.name THEN MethodInfo(op) ELSE methods[n]]

\* One iteration of the loop over serviceType.Method(i)
RegLoop ==
    /\ ~ fatal
    /\ reg.pc = "loop"
    /\ LET ms == MethodSeq(reg.service)
           op == ms[reg.i]
       IN  /\ heap' = IF Skipped(op) THEN heap
                      ELSE [heap EXCEPT ![reg.svc].methods = AddMethod(@, op)]
           /\ reg' = [reg EXCEPT !.i = @ + 1,
                                 !.pc = IF reg.i + 1 > Len(ms) THEN "publish" ELSE "loop"]
    /\ UNCHANGED <<services, reqs, fatal>>
    /\ ConcFrame

\* s.services[name] = svc, first half: the runtime's map assignment has
\* begun (the map is flagged as being written) and has not yet stored
RegAssignBegin ==
    /\ ~ fatal
    /\ reg.pc = "publish"
    /\ reg' = [reg EXCEPT !.pc = "assign"]
    /\ UNCHANGED <<services, heap, reqs, fatal>>
    /\ ConcFrame

\* s.services[name] = svc, second half: the pointer is stored; return nil
RegAssignEnd ==
    /\ ~ fatal
    /\ reg.pc = "assign"
    /\ services' = Store(services, ConcName, reg.svc)
    /\ reg' = [reg EXCEPT !.pc = "done"]
    /\ UNCHANGED <<heap, reqs, fatal>>
    /\ ConcFrame

\* handle: the request is routed to handleRPC(e, service, kebabToPascal(method))
AcceptPost(r, slug, body) ==
    /\ ~ fatal
    /\ reqs[r].pc = "idle"
    /\ reqs' = [reqs EXCEPT ![r] =
                   [IdleReq EXCEPT !.pc = "service", !.route = "post", !.serv = ConcName,
                                   !.slug = slug,
                                   !.methodName = kebabToPascal(slug), !.body = body,
                                   !.quiet = (reg.pc = "done")]]
    /\ UNCHANGED <<services, heap, reg, fatal>>
    /\ ConcFrame

\* handleGet: the request is routed to handleRPCGet(e, service,
\* kebabToPascal(entity), id), which looks for "Get" + entityName
AcceptGet(r, entity, id) ==
    /\ ~ fatal
    /\ reqs[r].pc = "idle"
    /\ reqs' = [reqs EXCEPT ![r] =
                   [IdleReq EXCEPT !.pc = "service", !.route = "get", !.serv = ConcName,
                                   !.slug = entity,
                                   !.methodName = GetMethodName(kebabToPascal(entity)),
                                   !.id = id, !.quiet = (reg.pc = "done")]]
    /\ UNCHANGED <<services, heap, reg, fatal>>
    /\ ConcFrame

\* return e.JSON(status, payload)
Respond(rq, stage, status, payload) ==
    [rq EXCEPT !.pc = "done", !.stages = Append(@, stage), !.sent = @ + 1,
               !.resp = JSON(status, payload, rq.calls, rq.bound)]

\* the goroutine panics: the handler returns nothing
Panicked(rq, stage, reason) ==
    [rq EXCEPT !.pc = "panicked", !.stages = Append(@, stage),
               !.resp = Panic(reason, rq.calls, rq.bound)]

\* What service, exists := s.services[serviceName] can read: the map entry;
\* while the map assignment of RegisterService is under way the read is a
\* data race and may give the entry before or after the assignment
MapReads(name) ==
    LET entry == IF name \in DOMAIN services THEN services[name] ELSE None
    IN  IF reg.pc = "assign" THEN {entry, reg.svc} ELSE {entry}

\* "Find service".  A read racing with the map assignment may also be
\* caught by the runtime, which then throws "concurrent map read and map
\* write" and ends the process.
ResolveService(r) ==
    /\ ~ fatal
    /\ reqs[r].pc = "service"
    /\ \/ /\ reg.pc = "assign"
          /\ fatal' = TRUE
          /\ UNCHANGED reqs
       \/ /\ \E a \in MapReads(reqs[r].serv) :
                 reqs' = [reqs EXCEPT ![r] =
                     IF a = None
                     THEN Respond(@, "service", StatusNotFound, ServiceNotFound(@.serv))
                     ELSE [@ EXCEPT !.pc = "method", !.svc = a,
                                    !.stages = Append(@, "service")]]
          /\ UNCHANGED fatal
    /\ UNCHANGED <<services, heap, reg>>
    /\ ConcFrame

\* Mutant of ResolveMethod: a request that misses its method removes the
\* service from the map
ResolveMethodEvict(r) ==
    /\ ~ fatal
    /\ reqs[r].pc = "method"
    /\ LET rq  == reqs[r]
           svc == heap[rq.svc]
       IN  IF rq.methodName \notin DOMAIN svc.methods
           THEN /\ reqs' = [reqs EXCEPT ![r] =
                               Respond(rq, "method", StatusNotFound,
                                       MethodNotFound(rq.methodName, rq.serv))]
                /\ services' = [n \in (DOMAIN services) \ {rq.serv} |-> services[n]]
           ELSE /\ reqs' = [reqs EXCEPT ![r] =
                               [rq EXCEPT !.method = svc.methods[rq.methodName],
                                          !.stages = Append(@, "method"),
                                          !.recv = IF rq.route = "post" THEN svc.service ELSE @,
                                          !.pc = IF rq.route = "get" THEN "shape"
                                                 ELSE IF svc.methods[rq.methodName].HasParams
                                                 THEN "bind" ELSE "invoke"]]
                /\ services' = services
    /\ UNCHANGED <<heap, reg, fatal>>
    /\ ConcFrame

\* "Find method"; handleRPC then takes the method value of the instance
\* and goes on to bind or to call
ResolveMethod(r) ==
    /\ ~ fatal
    /\ reqs[r].pc = "method"
    /\ LET rq  == reqs[r]
           svc == heap[rq.svc]
       IN  reqs' = [reqs EXCEPT ![r] =
               IF rq.methodName \notin DOMAIN svc.methods
               THEN Respond(rq, "method", StatusNotFound,
                            MethodNotFound(rq.methodName, rq.serv))
               ELSE LET method == svc.methods[rq.methodName]
                    IN  [rq EXCEPT !.method = method,
                                   !.stages = Append(@, "method"),
                                   !.recv = IF rq.route = "post" THEN svc.service ELSE @,
                                   !.pc = IF rq.route = "get" THEN "shape"
                                          ELSE IF method.HasParams THEN "bind"
                                          ELSE "invoke"]]
    /\ UNCHANGED <<services, heap, reg, fatal>>
    /\ ConcFrame

\* handleRPCGet, "Check if the method accepts a string parameter", then
\* the method value of the instance is taken
ShapeCheck(r) ==
    /\ ~ fatal
    /\ reqs[r].pc = "shape"
    /\ LET rq == reqs[r]
       IN  reqs' = [reqs EXCEPT ![r] =
               IF rq.method.Type = NilType
               THEN Panicked(rq, "shape", "nil pointer dereference")
               ELSE IF rq.method.Type.kind # "String"
               THEN Respond(rq, "shape", StatusBadRequest, NotStringParameter(rq.methodName))
               ELSE [rq EXCEPT !.pc = "invoke", !.stages = Append(@, "shape"),
                               !.recv = heap[rq.svc].service,
                               !.args = <<Value(StringT, rq.id)>>]]
    /\ UNCHANGED <<services, heap, reg, fatal>>
    /\ ConcFrame

\* handleRPC, "Decode parameters into argument"
Bind(r) ==
    /\ ~ fatal
    /\ reqs[r].pc = "bind"
    /\ LET rq == [reqs[r] EXCEPT !.bound = TRUE]
       IN  reqs' = [reqs EXCEPT ![r] =
               IF ~ rq.body.decodable
               THEN Respond(rq, "bind", StatusBadRequest, InvalidParameters)
               ELSE [rq EXCEPT !.pc = "invoke", !.stages = Append(@, "bind"),
                               !.args = <<Value(rq.method.Type, rq.body.data)>>]]
    /\ UNCHANGED <<services, heap, reg, fatal>>
    /\ ConcFrame

\* methodValue.Call(args): the method runs and reports opErr, unless the
\* call panics before it runs
Invoke(r) ==
    /\ ~ fatal
    /\ reqs[r].pc = "invoke"
    /\ LET rq == reqs[r]
           op == MethodByName(rq.recv, rq.method.Method)
       IN  IF CallPanics(op, rq.args)
           THEN reqs' = [reqs EXCEPT ![r] = Panicked(rq, "invoke", "reflect: Call")]
           ELSE \E opErr \in Errors :
                   reqs' = [reqs EXCEPT ![r] =
                       [rq EXCEPT !.pc = "encode", !.stages = Append(@, "invoke"),
                                  !.calls = Append(@, Invocation(rq.recv, op, rq.args)),
                                  !.results = Results(rq.recv, op, rq.args, opErr),
                                  !.opErr = opErr]]
    /\ UNCHANGED <<services, heap, reg, fatal>>
    /\ ConcFrame

\* "Check for error": the response for the values the method returned
Encode(r) ==
    /\ ~ fatal
    /\ reqs[r].pc = "encode"
    /\ LET rq == reqs[r]
       IN  reqs' = [reqs EXCEPT ![r] =
               [rq EXCEPT !.pc = "done", !.stages = Append(@, "encode"), !.sent = @ + 1,
                          !.resp = IF rq.route = "post"
                                   THEN RespondRPC(rq.method, rq.results, rq.calls, rq.bound)
                                   ELSE RespondRPCGet(rq.method, rq.results, rq.calls)]]
    /\ UNCHANGED <<services, heap, reg, fatal>>
    /\ ConcFrame

ConcNext ==
    \/ \E service \in ConcInstances : RegBegin(service)
    \/ RegLoop
    \/ RegAssignBegin
    \/ RegAssignEnd
    \/ \E r \in Requests, slug \in ConcSlugs, body \in Bodies : AcceptPost(r, slug, body)
    \/ \E r \in Requests, entity \in ConcEntities, id \in ConcIds : AcceptGet(r, entity, id)
    \/ \E r \in Requests : ResolveService(r)
    \/ \E r \in Requests : ResolveMethod(r)
    \/ \E r \in Requests : ShapeCheck(r)
    \/ \E r \in Requests : Bind(r)
    \/ \E r \in Requests : Invoke(r)
    \/ \E r \in Requests : Encode(r)

SpecConc == ConcInit /\ [][ConcNext]_vars

-----------------------------------------------------------------------------
(* Requests and registration side by side                                  *)

\* The handler of request r has run to its end
Finished(r) == reqs[r].pc \in {"done", "panicked"}

\* What the handler of request r returns when it runs alone, start to
\* end, against the registry as it is now
Alone(r) ==
    LET rq    == reqs[r]
        opErr == IF rq.opErr = None THEN NilErr ELSE rq.opErr
    IN  IF rq.route = "post"
        THEN handle(Deref(services, heap), rq.serv, rq.slug, rq.body, opErr)
        ELSE handleGet(Deref(services, heap), rq.serv, rq.slug, rq.id, opErr)

\* Request r holds the descriptor the map now gives for its service
ResolvedAsNow(r) ==
    /\ reqs[r].serv \in DOMAIN services
    /\ reqs[r].svc = services[reqs[r].serv]

\* C13: once the registration has completed, requests interleaved in any
\* way on both routes leave the registry as it is: no step of a request
\* writes the services map or a descriptor, and a request accepted after
\* the registration resolves the service and the method, and ends, as the
\* handler run alone against that registry does.
C13_RequestsLeaveRegistryAlone ==
    /\ [](\A r \in Requests :
             reqs[r].quiet =>
                 /\ reqs[r].svc # None => ResolvedAsNow(r)
                 /\ Finished(r) => reqs[r].resp = Alone(r))
    /\ [][reg' = reg => (services' = services /\ heap' = heap)]_vars

\* Two requests accepted after the registration, one on each route, both
\* past their invocation and not yet answered
C13_Witness ==
    /\ reg.pc = "done"
    /\ reqs["r1"].quiet /\ reqs["r2"].quiet
    /\ reqs["r1"].route = "post" /\ reqs["r2"].route = "get"
    /\ reqs["r1"].pc = "encode" /\ reqs["r2"].pc = "encode"
    /\ reqs["r1"].calls # <<>> /\ reqs["r2"].calls # <<>>

\* The descriptor at address a is the complete descriptor of its instance
Complete(a) == heap[a] = Descriptor(heap[a].serviceName, heap[a].service)

\* C14 (as claimed): a descriptor is in the map only once its method table
\* is completely built and is never changed afterwards, so that a request
\* interleaved with a re-registration of its service resolves and invokes
\* against the complete old or the complete new descriptor: never against a
\* partly filled table or a mixture, and it does get that far.
C14_CompleteOldOrNew ==
    /\ \A n \in DOMAIN services : Complete(services[n])
    /\ \A r \in Requests :
           reqs[r].svc # None =>
               /\ Complete(reqs[r].svc)
               /\ reqs[r].method # NoRPCMethod =>
                      /\ reqs[r].methodName \in DOMAIN heap[reqs[r].svc].methods
                      /\ reqs[r].method = heap[reqs[r].svc].methods[reqs[r].methodName]
               /\ reqs[r].recv # None => reqs[r].recv = heap[reqs[r].svc].service
    /\ ConcName \in DOMAIN services => ~ fatal

\* The stages of a request, in the order of the handlers
StageOrder == <<"service", "method", "shape", "bind", "invoke", "encode">>
StageRank(st) == CHOOSE i \in 1..Len(StageOrder) : StageOrder[i] = st

\* C15 (as claimed): a request goes through Resolve service, Resolve
\* method, shape check (fetch-by-id), Bind (invoke-by-name), Invoke, Encode
\* in this order and leaves at the first failure; it invokes at most one
\* operation, once, and when its handler has ended exactly one response
\* has been produced.
C15_LinearPipelineOneResponse ==
    \A r \in Requests :
        LET rq == reqs[r]
        IN  /\ \A i \in 1..(Len(rq.stages) - 1) :
                   StageRank(rq.stages[i]) < StageRank(rq.stages[i + 1])
            /\ Len(rq.calls) <= 1
            /\ rq.sent <= 1
            /\ Finished(r) => rq.sent = 1

-----------------------------------------------------------------------------
(* Binding of the request body                                             *)

\* The operation, as the instance declares it, that the last request resolved
ResolvedOp ==
    CHOOSE op \in DeclaredMethods(services[last.serv].service) :
        op.name = WantedMethod /\ Exported(op)

\* C16: invoke-by-name consults the binder if and only if the resolved
\* method declares a parameter.  With a parameter, an undecodable body is
\* answered BadRequestDecode (status BadRequest) and the method is not
\* invoked, and a decodable body is bound into a value of the declared type
\* that is passed to the method; a method without parameter is invoked
\* with no argument, whatever the body.
C16_BindIffParameter ==
    (last.op = "post" /\ MethodKnown) =>
        LET takes == LogicalParams(ResolvedOp) = 1
        IN  /\ last.resp.bound <=> takes
            /\ (takes /\ ~ last.body.decodable) =>
                   /\ BadRequestDecode
                   /\ last.resp.status = StatusBadRequest
                   /\ last.resp.calls = <<>>
            /\ (takes /\ last.body.decodable) =>
                   /\ services[last.serv].methods[WantedMethod].Type = ResolvedOp.ins[2]
                   /\ Len(last.resp.calls) = 1
                   /\ last.resp.calls[1].method = WantedMethod
                   /\ last.resp.calls[1].args = <<last.body.data>>
            /\ ~ takes =>
                   /\ Len(last.resp.calls) = 1
                   /\ last.resp.calls[1].method = WantedMethod
                   /\ last.resp.calls[1].args = <<>>

\* A method with a parameter ran on the decoded body
C16_Witness ==
    /\ last.op = "post"
    /\ MethodKnown
    /\ LogicalParams(ResolvedOp) = 1
    /\ last.body.decodable
    /\ last.resp.bound
    /\ Len(last.resp.calls) = 1
    /\ last.resp.calls[1].args = <<last.body.data>>

-----------------------------------------------------------------------------
(* The query DSL (package dsl) and the record store behind it              *)

\* The collection of the example server (migrations) and its fields
CollectionNameWechatAuth == "wechat_auth"
FieldWeOpenid == "we_openid"
FieldLastAuthCode == "last_auth_code"

Openids == {"o1", "o2"}
Codes == {"c1", "c2"}
AccessTokens == {"t1", "t2"}

Names == {"n1", "n2"}

\* A UserInfoResponse: the openid and the profile that goes with it
Info(openid, name) == [OpenID |-> openid, Nickname |-> name]

\* A record of the collection.  token stands for the stored access token
\* with its expiry, info for the stored profile.
Record(id, openid, code, token, info) ==
    [id |-> id, we_openid |-> openid, last_auth_code |-> code,
     we_access_token |-> token, we_authinfo |-> info]

\* A filter expression "field = {:ph}", or "field = 'lit'" when ph is empty
Filter(field, ph, lit) == [field |-> field, ph |-> ph, lit |-> lit]

\* dbx.Params
ParamsOpenid == [k \in {"openid"} |-> "o1"]
ParamsCode == [k \in {"code"} |-> "c2"]

\* The arguments of app.FindRecordsByFilter
FindArgs(collection, filter, sort, limit, offset, params) ==
    [collection |-> collection, filter |-> filter, sort |-> sort, limit |-> limit,
     offset |-> offset, params |-> params]

\* app.FindRecordsByFilter (PocketBase): the records matching the filter
\* with its placeholders replaced by the params, sorted, from offset on, at
\* most limit of them when limit > 0.  No match is an empty list and no
\* error; a placeholder left without binding is an error.
FindRecordsByFilter(recs, find) ==
    LET f == find.filter
        \* the value the params bind to a placeholder, <<>> if none does
        RECURSIVE Binding(_, _)
        Binding(params, ph) ==
            IF params = <<>> THEN <<>>
            ELSE IF ph \in DOMAIN Head(params) THEN <<Head(params)[ph]>>
            ELSE Binding(Tail(params), ph)
        RECURSIVE Reverse(_)
        Reverse(sq) == IF sq = <<>> THEN <<>> ELSE Append(Reverse(Tail(sq)), Head(sq))
        binding == IF f.ph = "" THEN <<f.lit>> ELSE Binding(find.params, f.ph)
    IN  IF binding = <<>>
        THEN [records |-> <<>>, err |-> "invalid filter expression"]
        ELSE LET match(rec) == rec[f.field] = binding[1]
                 hits    == SelectSeq(recs, match)
                 sorted  == IF find.sort = "-created" THEN Reverse(hits) ELSE hits
                 from    == IF find.offset > 0
                            THEN SubSeq(sorted, find.offset + 1, Len(sorted))
                            ELSE sorted
                 upto    == IF find.limit > 0 /\ find.limit < Len(from)
                            THEN SubSeq(from, 1, find.limit)
                            ELSE from
             IN  [records |-> upto, err |-> NilErr]

\* Query(filter): a new QueryBuilder, every other field at its zero value.
\* The result is the heap of builders and the pointer returned.
Query(filter) ==
    [heap |-> [a \in {"q1"} |->
                  [filter |-> filter, page |-> 0, perPage |-> 0, expand |-> "",
                   sort |-> "", params |-> <<>>]],
     ret |-> "q1"]

\* Mutant of Page: the page is set on a copy of the builder, which is returned
PageOnCopy(hp, q, page, perPage) ==
    [heap |-> [a \in (DOMAIN hp) \cup {"q2"} |->
                  IF a = "q2" THEN [hp[q] EXCEPT !.page = page, !.perPage = perPage]
                  ELSE hp[a]],
     ret |-> "q2"]

\* (q *QueryBuilder) Page(page, perPage)
Page(hp, q, page, perPage) ==
    [heap |-> [hp EXCEPT ![q].page = page, ![q].perPage = perPage], ret |-> q]

\* (q *QueryBuilder) Expand(expand)
Expand(hp, q, expand) == [heap |-> [hp EXCEPT ![q].expand = expand], ret |-> q]

\* (q *QueryBuilder) Sort(sort)
Sort(hp, q, sort) == [heap |-> [hp EXCEPT ![q].sort = sort], ret |-> q]

\* (q *QueryBuilder) Params(params...)
Params(hp, q, params) == [heap |-> [hp EXCEPT ![q].params = params], ret |-> q]

\* The outcome of List or First: what was asked of the store, the records
\* returned (First: at most one) and the error
Outcome(find, recs, err) == [find |-> find, records |-> recs, err |-> err]

\* First and List, "if query.expand != """: app.ExpandRecord on each
\* record; expandFails tells whether it reports errors
Expanded(q, find, recs, expandFails) ==
    IF q.expand # "" /\ recs # <<>> /\ expandFails
    THEN Outcome(find, <<>>, "failed to expand relations")
    ELSE Outcome(find, recs, NilErr)

\* (c *CollectionQueryBuilder) First(query, params...)
First(recs, collection, q, params, expandFails) ==
    LET find  == FindArgs(collection, q.filter, q.sort, 1, 0, params)
        found == FindRecordsByFilter(recs, find)
    IN  IF found.err # NilErr THEN Outcome(find, <<>>, found.err)
        ELSE IF Len(found.records) = 0 THEN Outcome(find, <<>>, "no records found")
        ELSE Expanded(q, find, <<found.records[1]>>, expandFails)

\* Go's int arithmetic wraps around.  Go's int has 64 bits; the int of the
\* model has IntBits bits, from -2^(IntBits-1) to 2^(IntBits-1) - 1.
IntBits == 8
Wrap(n) == ((n + 2^(IntBits - 1)) % 2^IntBits) - 2^(IntBits - 1)

\* (c *CollectionQueryBuilder) List(query, params...)
List(recs, collection, q, params, expandFails) ==
    LET product == Wrap(Wrap(q.page - 1) * q.perPage)
        offset  == IF product < 0 THEN 0 ELSE product
        find    == FindArgs(collection, q.filter, q.sort, q.perPage, offset, params)
        found   == FindRecordsByFilter(recs, find)
    IN  IF found.err # NilErr THEN Outcome(find, <<>>, found.err)
        ELSE Expanded(q, find, found.records, expandFails)

\* The arguments of the model's calls
DslFilters == { Filter(FieldWeOpenid, "openid", ""), Filter(FieldLastAuthCode, "", "c1") }
Pages == { <<1, 2>>, <<2, 2>>, <<0, 5>>, <<3, 2^(IntBits - 2)>> }
Expands == {"user", "user,profile"}
Sorts == {"created", "-created"}
ParamLists == { <<ParamsOpenid>>, <<ParamsOpenid, ParamsCode>> }
ExtraParams == { <<>>, <<ParamsOpenid>> }
MaxCalls == 3

\* The records in the store while the DSL is exercised
DslRecords ==
    << Record("r1", "o1", "c1", "t1", Info("o1", "n1")),
       Record("r2", "o2", "c1", "t1", Info("o2", "n1")),
       Record("r3", "o1", "c2", "t2", Info("o1", "n2")) >>

NoDslCall == [op |-> "none", extra |-> <<>>, query |-> None, out |-> None]

\* One call on the builder, as written down in hist
Call(op, args, ret) == [op |-> op, args |-> args, ret |-> ret]

DslInit ==
    /\ query = [a \in {} |-> None]
    /\ hist = <<>>
    /\ dcall = NoDslCall
    /\ records = DslRecords
    /\ wcall = None
    /\ services = NoServices
    /\ last = NoCall
    /\ replaced = <<>>
    /\ kebab = <<>>
    /\ pascal = NotCalled
    /\ ConcIdle /\ TokenIdle

DslFrame == UNCHANGED <<rpcVars, kebabVars, concVars, records, wcall, tokenVars>>

\* The builders the caller holds: the one Query returned and the one the
\* last call returned
Held == {hist[1].ret, hist[Len(hist)].ret}

\* query := dsl.Query(filter)
DslQuery(filter) ==
    /\ query' = Query(filter).heap
    /\ hist' = <<Call("Query", <<filter>>, Query(filter).ret)>>
    /\ dcall' = NoDslCall
    /\ DslFrame

\* One setter called on a builder the caller holds
Setter(op, args, r) ==
    /\ query' = r.heap
    /\ hist' = Append(hist, Call(op, args, r.ret))
    /\ dcall' = NoDslCall
    /\ DslFrame

DslPage(page, perPage) ==
    /\ hist # <<>> /\ Len(hist) <= MaxCalls
    /\ \E q \in Held : Setter("Page", <<page, perPage>>, Page(query, q, page, perPage))

DslExpand(expand) ==
    /\ hist # <<>> /\ Len(hist) <= MaxCalls
    /\ \E q \in Held : Setter("Expand", <<expand>>, Expand(query, q, expand))

DslSort(sort) ==
    /\ hist # <<>> /\ Len(hist) <= MaxCalls
    /\ \E q \in Held : Setter("Sort", <<sort>>, Sort(query, q, sort))

DslParams(params) ==
    /\ hist # <<>> /\ Len(hist) <= MaxCalls
    /\ \E q \in Held : Setter("Params", <<params>>, Params(query, q, params))

\* dsl.Collection(app, name).List(*query, extra...)
DslList(extra) ==
    /\ hist # <<>>
    /\ \E q \in Held, expandFails \in BOOLEAN :
           dcall' = [op |-> "List", extra |-> extra, query |-> query[q],
                     out |-> List(records, CollectionNameWechatAuth, query[q], extra,
                                  expandFails)]
    /\ UNCHANGED <<query, hist>>
    /\ DslFrame

\* dsl.Collection(app, name).First(*query, extra...)
DslFirst(extra) ==
    /\ hist # <<>>
    /\ \E q \in Held, expandFails \in BOOLEAN :
           dcall' = [op |-> "First", extra |-> extra, query |-> query[q],
                     out |-> First(records, CollectionNameWechatAuth, query[q], extra,
                                   expandFails)]
    /\ UNCHANGED <<query, hist>>
    /\ DslFrame

DslNext ==
    \/ \E filter \in DslFilters : DslQuery(filter)
    \/ \E pp \in Pages : DslPage(pp[1], pp[2])
    \/ \E expand \in Expands : DslExpand(expand)
    \/ \E sort \in Sorts : DslSort(sort)
    \/ \E params \in ParamLists : DslParams(params)
    \/ \E extra \in ExtraParams : DslList(extra)
    \/ \E extra \in ExtraParams : DslFirst(extra)

SpecDsl == DslInit /\ [][DslNext]_vars

\* C17 (as claimed): the params attached to a query with Params are the
\* bindings used when the query is executed: List(query) and First(query),
\* called without further params, pass the query's params to the record
\* store.
C17_QueryParamsReachStore ==
    (dcall.op \in {"List", "First"} /\ dcall.extra = <<>>) =>
        dcall.out.find.params = dcall.query.params

\* The builder the calls of hist were made on
Built == query[hist[1].ret]

\* The arguments of the most recent call of op in hist, or the default
Latest(op, default) ==
    LET at == {i \in 1..Len(hist) : hist[i].op = op}
    IN  IF at = {} THEN default
        ELSE hist[CHOOSE i \in at : \A j \in at : j <= i].args

\* C18: Query(filter) sets the filter alone (page 0, perPage 0, empty
\* expand and sort, no params); Page, Expand, Sort and Params overwrite
\* their own fields only and return the builder they were called on.  After
\* any sequence of these calls each field of the builder holds the argument
\* of the most recent call that sets it, or its default, whatever the order
\* of the calls.
C18_SettersSetTheirOwnFields ==
    hist # <<>> =>
        /\ DOMAIN query = {hist[1].ret}
        /\ \A i \in 1..Len(hist) : hist[i].ret = hist[1].ret
        /\ Built.filter = hist[1].args[1]
        /\ <<Built.page, Built.perPage>> = Latest("Page", <<0, 0>>)
        /\ <<Built.expand>> = Latest("Expand", <<"">>)
        /\ <<Built.sort>> = Latest("Sort", <<"">>)
        /\ <<Built.params>> = Latest("Params", <<<<>>>>)

\* Page called twice with another setter in between: the second call's
\* arguments are the ones held, the other setter's field is kept
C18_Witness ==
    /\ Len(hist) = 4
    /\ hist[2].op = "Page" /\ hist[3].op = "Sort" /\ hist[4].op = "Page"
    /\ hist[2].args # hist[4].args
    /\ <<Built.page, Built.perPage>> = hist[4].args
    /\ Built.sort = hist[3].args[1]
    /\ Built.expand = ""

\* C27 (as claimed): List passes limit = perPage and
\* offset = max(0, (page - 1) * perPage) to the record store: for page >= 1
\* and perPage >= 0 the offset is (page - 1) * perPage, and for every page
\* and perPage, the defaults 0 and 0 among them, it is not negative.
C27_OffsetOfPage ==
    dcall.op = "List" =>
        LET page    == dcall.query.page
            perPage == dcall.query.perPage
            find    == dcall.out.find
        IN  /\ find.limit = perPage
            /\ find.offset = IF (page - 1) * perPage < 0 THEN 0 ELSE (page - 1) * perPage
            /\ (page >= 1 /\ perPage >= 0) => find.offset = (page - 1) * perPage
            /\ find.offset >= 0

-----------------------------------------------------------------------------
(* The example server's WechatAuthHandler and the OAuth callback           *)

\* sql.ErrNoRows and wechat.NoAuthRecordError
SqlErrNoRows == "sql: no rows in result set"
NoAuthRecordError == "no auth record found"

\* The result of a handler call: the store afterwards, the record
\* returned (<<>> for nil), the error, and the collaborator calls made
Result(recs, record, err, calls) ==
    [records |-> recs, record |-> record, err |-> err, calls |-> calls]

\* (h *WechatAuthHandler) FindAuthRecordByCode(code)
FindAuthRecordByCode(recs, code) ==
    LET q   == Query(Filter(FieldLastAuthCode, "code", ""))
        out == First(recs, CollectionNameWechatAuth, q.heap[q.ret],
                     <<[k \in {"code"} |-> code]>>, FALSE)
    IN  IF out.err # NilErr
        THEN IF out.err = SqlErrNoRows
             THEN Result(recs, <<>>, NoAuthRecordError, <<>>)
             ELSE Result(recs, <<>>, out.err, <<>>)
        ELSE Result(recs, out.records, NilErr, <<>>)

\* (c *CollectionQueryBuilder) Create(recordMap): a new record is saved;
\* the unique index idx_openid refuses a second record for an openid
Create(recs, openid, code, token, info) ==
    IF \E i \in 1..Len(recs) : recs[i].we_openid = openid
    THEN Result(recs, <<>>, "UNIQUE constraint failed", <<>>)
    ELSE LET record == Record(<<"r", Len(recs) + 1>>, openid, code, token, info)
         IN  Result(Append(recs, record), <<record>>, NilErr, <<>>)

\* (c *CollectionQueryBuilder) Update(id, recordMap) with the fields Save
\* gives it: the record found by id is loaded with them and saved
Update(recs, id, code, token, info) ==
    IF \A i \in 1..Len(recs) : recs[i].id # id
    THEN Result(recs, <<>>, SqlErrNoRows, <<>>)
    ELSE LET k      == CHOOSE i \in 1..Len(recs) : recs[i].id = id
             record == [recs[k] EXCEPT !.last_auth_code = code,
                                       !.we_access_token = token, !.we_authinfo = info]
         IN  Result([recs EXCEPT ![k] = record], <<record>>, NilErr, <<>>)

\* (h *WechatAuthHandler) Save(token, info, code)
Save(recs, token, info, code) ==
    LET q   == Query(Filter(FieldWeOpenid, "openid", ""))
        out == First(recs, CollectionNameWechatAuth, q.heap[q.ret],
                     <<[k \in {"openid"} |-> info.OpenID]>>, FALSE)
    IN  IF out.err # NilErr /\ out.err # SqlErrNoRows
        THEN Result(recs, <<>>, out.err, <<>>)
        ELSE IF out.records = <<>>
        THEN Create(recs, info.OpenID, code, token, info)
        ELSE Update(recs, out.records[1].id, code, token, info)

\* (h *WechatAuthHandler) ModifyAuthRecord(record): the fields hidden from
\* the record's JSON
ModifyAuthRecord(record) == {FieldLastAuthCode, "we_access_token", "we_token_expired"}

\* The AuthHandler values of the model: the example server's
\* WechatAuthHandler, and handlers whose FindAuthRecordByCode and Save
\* return what is written in them and keep no records
WechatAuthHandler == [kind |-> "WechatAuthHandler"]
ScriptedHandlers(code) ==
    LET held(o) == Record(<<"r", 1>>, o, code, "t1", Info(o, "n1"))
    IN  { [kind |-> "scripted", found |-> f, saved |-> sv] :
            f \in { [record |-> <<>>, err |-> NoAuthRecordError],
                    [record |-> <<>>, err |-> SqlErrNoRows],
                    [record |-> <<>>, err |-> "database is locked"],
                    [record |-> <<held("o1")>>, err |-> NilErr] },
            sv \in { [record |-> <<>>, err |-> "database is locked"] }
                       \cup { [record |-> <<held(o)>>, err |-> NilErr] : o \in Openids } }

\* The calls through the AuthHandler interface
StoreFind(store, recs, code) ==
    IF store.kind = "WechatAuthHandler" THEN FindAuthRecordByCode(recs, code)
    ELSE Result(recs, store.found.record, store.found.err, <<>>)
StoreSave(store, recs, token, info, code) ==
    IF store.kind = "WechatAuthHandler" THEN Save(recs, token, info, code)
    ELSE Result(recs, store.saved.record, store.saved.err, <<>>)
StoreModify(store, record) ==
    IF store.kind = "WechatAuthHandler" THEN ModifyAuthRecord(record) ELSE {}

\* What the identity provider answers: auth.FetchAccessToken(code) and
\* auth.FetchUserInfo(token.AccessToken, token.OpenID)
TokenAnswers ==
    {[err |-> NilErr, token |-> t, openid |-> o] : t \in AccessTokens, o \in Openids}
        \cup {[err |-> "api error", token |-> "", openid |-> ""]}
InfoAnswers(openid) ==
    {[err |-> NilErr, info |-> Info(openid, n)] : n \in Names}
        \cup {[err |-> "api error", info |-> Info("", "")]}

\* Mutant of exchangeWechatAuthInfo: a record found for the code does not
\* end the exchange
exchangeSignInAgain(store, recs, code, tokenAnswer, infoAnswer) ==
    IF code = "" THEN Result(recs, <<>>, "code required", <<>>)
    ELSE LET found == StoreFind(store, recs, code)
             c1    == <<"FindAuthRecordByCode">>
         IN  IF found.err # NilErr /\ found.err # NoAuthRecordError
                                   /\ found.err # SqlErrNoRows
             THEN Result(recs, <<>>, "find user by code failed", c1)
             ELSE LET c2 == Append(c1, "FetchAccessToken")
                  IN  IF tokenAnswer.err # NilErr
                      THEN Result(recs, <<>>, "request wechat api failed", c2)
                      ELSE LET c3 == Append(c2, "FetchUserInfo")
                           IN  IF infoAnswer.err # NilErr
                               THEN Result(recs, <<>>, "request wechat api failed", c3)
                               ELSE LET saved == StoreSave(store, recs,
                                                           tokenAnswer.token,
                                                           infoAnswer.info, code)
                                        c4    == Append(c3, "Save")
                                    IN  IF saved.err # NilErr
                                        THEN Result(recs, <<>>,
                                                    "upsert wechat user failed", c4)
                                        ELSE Result(saved.records, saved.record,
                                                    NilErr, c4)

\* Mutant of exchangeWechatAuthInfo: every lookup error goes on to the
\* identity provider
exchangeAnyLookupError(store, recs, code, tokenAnswer, infoAnswer) ==
    IF code = "" THEN Result(recs, <<>>, "code required", <<>>)
    ELSE LET found == StoreFind(store, recs, code)
             c1    == <<"FindAuthRecordByCode">>
         IN  IF found.record # <<>> THEN Result(recs, found.record, NilErr, c1)
             ELSE LET c2 == Append(c1, "FetchAccessToken")
                  IN  IF tokenAnswer.err # NilErr
                      THEN Result(recs, <<>>, "request wechat api failed", c2)
                      ELSE LET c3 == Append(c2, "FetchUserInfo")
                           IN  IF infoAnswer.err # NilErr
                               THEN Result(recs, <<>>, "request wechat api failed", c3)
                               ELSE LET saved == StoreSave(store, recs,
                                                           tokenAnswer.token,
                                                           infoAnswer.info, code)
                                        c4    == Append(c3, "Save")
                                    IN  IF saved.err # NilErr
                                        THEN Result(recs, <<>>,
                                                    "upsert wechat user failed", c4)
                                        ELSE Result(saved.records, saved.record,
                                                    NilErr, c4)

\* exchangeWechatAuthInfo(store, code) on the records recs; tokenAnswer and
\* infoAnswer are what the identity provider answers if asked
exchangeWechatAuthInfo(store, recs, code, tokenAnswer, infoAnswer) ==
    IF code = "" THEN Result(recs, <<>>, "code required", <<>>)
    ELSE LET found == StoreFind(store, recs, code)
             c1    == <<"FindAuthRecordByCode">>
         IN  IF found.err # NilErr /\ found.err # NoAuthRecordError
                                   /\ found.err # SqlErrNoRows
             THEN Result(recs, <<>>, "find user by code failed", c1)
             ELSE IF found.record # <<>> THEN Result(recs, found.record, NilErr, c1)
             ELSE LET c2 == Append(c1, "FetchAccessToken")
                  IN  IF tokenAnswer.err # NilErr
                      THEN Result(recs, <<>>, "request wechat api failed", c2)
                      ELSE LET c3 == Append(c2, "FetchUserInfo")
                           IN  IF infoAnswer.err # NilErr
                               THEN Result(recs, <<>>, "request wechat api failed", c3)
                               ELSE LET saved == StoreSave(store, recs,
                                                           tokenAnswer.token,
                                                           infoAnswer.info, code)
                                        c4    == Append(c3, "Save")
                                    IN  IF saved.err # NilErr
                                        THEN Result(recs, <<>>,
                                                    "upsert wechat user failed", c4)
                                        ELSE Result(saved.records, saved.record,
                                                    NilErr, c4)

\* What a callback answers when no response has been written
NoAuthResponse ==
    [status |-> 0, data |-> "", record |-> <<>>, hidden |-> {}, logged |-> NilErr,
     events |-> <<>>]

\* Mutant of HandleAuthResponseWithCode: the 400 response tells the cause
HandleAuthResponseTellCause(store, recs, code, tokenAnswer, infoAnswer) ==
    LET respond(r) ==
            IF r.err # NilErr
            THEN [exchange |-> r,
                  resp |-> [NoAuthResponse EXCEPT !.status = StatusBadRequest,
                                !.data = r.err,
                                !.logged = r.err, !.events = r.calls]]
            ELSE [exchange |-> r,
                  resp |-> [NoAuthResponse EXCEPT !.status = StatusOK,
                                !.data = "RecordAuthResponse",
                                !.record = r.record,
                                !.hidden = StoreModify(store, r.record[1]),
                                !.events = r.calls \o <<"ModifyAuthRecord",
                                                        "RecordAuthResponse">>]]
    IN  respond(exchangeWechatAuthInfo(store, recs, code, tokenAnswer, infoAnswer))

\* The handler HandleAuthResponseWithCode(store) returns, run on a request
\* with the given code: the result of the exchange and the response, with
\* the calls on the store, the identity provider and apis.RecordAuthResponse
\* in their order.  The data of the 400 response is the error value given
\* to e.JSON.
HandleAuthResponseWithCode(store, recs, code, tokenAnswer, infoAnswer) ==
    LET respond(r) ==
            IF r.err # NilErr
            THEN [exchange |-> r,
                  resp |-> [NoAuthResponse EXCEPT !.status = StatusBadRequest,
                                !.data = "fetch wechat user failed",
                                !.logged = r.err, !.events = r.calls]]
            ELSE [exchange |-> r,
                  resp |-> [NoAuthResponse EXCEPT !.status = StatusOK,
                                !.data = "RecordAuthResponse",
                                !.record = r.record,
                                !.hidden = StoreModify(store, r.record[1]),
                                !.events = r.calls \o <<"ModifyAuthRecord",
                                                        "RecordAuthResponse">>]]
    IN  respond(exchangeWechatAuthInfo(store, recs, code, tokenAnswer, infoAnswer))

\* The codes a callback may carry: the query parameter may be missing
CallbackCodes == Codes \cup {""}

\* The auth collection when the server starts: empty, or holding a record
\* that was created through PocketBase itself
WechatStores ==
    { <<>>,
      <<Record(<<"r", 1>>, "o1", "c1", "t1", Info("o1", "n1"))>>,
      <<Record(<<"r", 1>>, "o1", "c1", "t1", Info("o1", "n1")),
        Record(<<"r", 2>>, "o2", "c2", "t2", Info("o2", "n2"))>> }

\* What the collaborators of a callback answer when asked
Asked(found, tokenAnswer, infoAnswer) ==
    [found |-> [record |-> found.record, err |-> found.err],
     tokenErr |-> tokenAnswer.err, infoErr |-> infoAnswer.err]

NoWechatCall ==
    [op |-> "none", code |-> "", openid |-> "", before |-> <<>>, record |-> <<>>,
     err |-> NilErr, calls |-> <<>>, resp |-> NoAuthResponse,
     asked |-> Asked([record |-> <<>>, err |-> NilErr], [err |-> NilErr],
                     [err |-> NilErr])]

WechatInit ==
    /\ records \in WechatStores
    /\ wcall = NoWechatCall
    /\ services = NoServices
    /\ last = NoCall
    /\ replaced = <<>>
    /\ kebab = <<>>
    /\ pascal = NotCalled
    /\ ConcIdle /\ DslIdle /\ TokenIdle

WechatFrame == UNCHANGED <<rpcVars, kebabVars, concVars, dslVars, tokenVars>>

\* The call that was made and what came of it
Called(op, code, openid, r) ==
    [op |-> op, code |-> code, openid |-> openid, before |-> records,
     record |-> r.record, err |-> r.err, calls |-> r.calls, resp |-> NoAuthResponse,
     asked |-> NoWechatCall.asked]

WechatFind(code) ==
    LET r == FindAuthRecordByCode(records, code)
    IN  /\ records' = r.records
        /\ wcall' = Called("FindAuthRecordByCode", code, "", r)
        /\ WechatFrame

WechatSave(token, info, code) ==
    LET r == Save(records, token, info, code)
    IN  /\ records' = r.records
        /\ wcall' = Called("Save", code, info.OpenID, r)
        /\ WechatFrame

\* GET /callback?code=... on the example server: the handler
\* HandleAuthResponseWithCode(h) with h the WechatAuthHandler
WechatCallback(code) ==
    \E tokenAnswer \in TokenAnswers :
        \E infoAnswer \in InfoAnswers(tokenAnswer.openid) :
            \E r \in {HandleAuthResponseWithCode(WechatAuthHandler, records, code,
                                                  tokenAnswer, infoAnswer)} :
                /\ records' = r.exchange.records
                /\ wcall' = [Called("exchangeWechatAuthInfo", code, "", r.exchange)
                                 EXCEPT !.resp = r.resp,
                                        !.asked = Asked(StoreFind(WechatAuthHandler,
                                                                  records, code),
                                                        tokenAnswer, infoAnswer)]
                /\ WechatFrame

\* The same handler over another AuthHandler
ScriptedCallback(code) ==
    \E tokenAnswer \in TokenAnswers, store \in ScriptedHandlers(code) :
        \E infoAnswer \in InfoAnswers(tokenAnswer.openid) :
            \E r \in {HandleAuthResponseWithCode(store, records, code,
                                                  tokenAnswer, infoAnswer)} :
                /\ records' = r.exchange.records
                /\ wcall' = [Called("scripted exchangeWechatAuthInfo", code, "",
                                    r.exchange)
                                 EXCEPT !.resp = r.resp,
                                        !.asked = Asked(StoreFind(store, records, code),
                                                        tokenAnswer, infoAnswer)]
                /\ WechatFrame

WechatNext ==
    \/ \E code \in Codes : WechatFind(code)
    \/ \E token \in AccessTokens, openid \in Openids, name \in Names, code \in Codes :
           WechatSave(token, Info(openid, name), code)
    \/ \E code \in CallbackCodes : WechatCallback(code)
    \/ \E code \in CallbackCodes : ScriptedCallback(code)

SpecWechat == WechatInit /\ [][WechatNext]_vars

\* Some record of recs has v in field f
Stored(recs, f, v) == \E i \in 1..Len(recs) : recs[i][f] = v

\* C19 (as claimed): FindAuthRecordByCode returns NoAuthRecordError and no
\* record whenever no stored auth record has the given last-auth code, so
\* that a callback with a code not seen before goes on to the token
\* exchange and does not end with "find user by code failed".
C19_UnseenCodeIsNoAuthRecord ==
    /\ (/\ wcall.op = "FindAuthRecordByCode"
        /\ ~ Stored(wcall.before, FieldLastAuthCode, wcall.code)) =>
           /\ wcall.err = NoAuthRecordError
           /\ wcall.record = <<>>
    /\ (/\ wcall.op = "exchangeWechatAuthInfo"
        /\ wcall.code # ""
        /\ ~ Stored(wcall.before, FieldLastAuthCode, wcall.code)) =>
           /\ wcall.err # "find user by code failed"
           /\ Len(wcall.calls) >= 2
           /\ wcall.calls[2] = "FetchAccessToken"

\* The records of recs with the given openid
WithOpenid(recs, openid) == SelectSeq(recs, LAMBDA rec : rec.we_openid = openid)

\* C20 (as claimed): Save is an upsert keyed by openid: without a record
\* of the profile's openid it creates one, with one it updates that
\* record's token, last auth code and profile in place; after any sequence
\* of successful Save calls there is at most one record per openid, and it
\* carries the code of the most recent Save for that openid.
C20_SaveIsUpsertByOpenid ==
    /\ \A o \in Openids : Len(WithOpenid(records, o)) <= 1
    /\ wcall.op = "Save" =>
           /\ wcall.err = NilErr
           /\ Len(WithOpenid(records, wcall.openid)) = 1
           /\ WithOpenid(records, wcall.openid)[1] = wcall.record[1]
           /\ wcall.record[1].last_auth_code = wcall.code
           /\ IF WithOpenid(wcall.before, wcall.openid) = <<>>
              THEN Len(records) = Len(wcall.before) + 1
              ELSE /\ Len(records) = Len(wcall.before)
                   /\ wcall.record[1].id = WithOpenid(wcall.before, wcall.openid)[1].id

\* The last call was a callback, on whichever AuthHandler
CallbackCall ==
    wcall.op \in {"exchangeWechatAuthInfo", "scripted exchangeWechatAuthInfo"}

\* C22: when FindAuthRecordByCode returns a record for the code of a
\* callback, exchangeWechatAuthInfo returns that record and there is no
\* token exchange, no profile fetch and no Save: the only collaborator call
\* is the lookup, and the records are as they were.
C22_FoundRecordEndsExchange ==
    (/\ CallbackCall
     /\ wcall.code # ""
     /\ wcall.asked.found.err = NilErr
     /\ wcall.asked.found.record # <<>>) =>
        /\ wcall.err = NilErr
        /\ wcall.record = wcall.asked.found.record
        /\ wcall.calls = <<"FindAuthRecordByCode">>
        /\ records = wcall.before

\* The example server is called back with a code one of its records carries
C22_Witness ==
    /\ wcall.op = "exchangeWechatAuthInfo"
    /\ Stored(wcall.before, FieldLastAuthCode, wcall.code)
    /\ wcall.record # <<>>
    /\ wcall.record[1].last_auth_code = wcall.code
    /\ wcall.calls = <<"FindAuthRecordByCode">>

\* The collaborator calls of exchangeWechatAuthInfo, in their order
ExchangeOrder == <<"FindAuthRecordByCode", "FetchAccessToken", "FetchUserInfo", "Save">>

\* C23: the collaborator calls of a callback are a beginning of
\* FindAuthRecordByCode, FetchAccessToken, FetchUserInfo, Save, each made
\* only if the step before let the flow go on: none for an empty code; the
\* lookup alone for a lookup error other than NoAuthRecordError and
\* sql.ErrNoRows; Save only after a token exchange and a profile fetch
\* that both succeeded.
C23_CollaboratorsInOrder ==
    CallbackCall =>
        /\ Len(wcall.calls) <= Len(ExchangeOrder)
        /\ wcall.calls = SubSeq(ExchangeOrder, 1, Len(wcall.calls))
        /\ wcall.code = "" => wcall.calls = <<>>
        /\ (/\ wcall.code # ""
            /\ wcall.asked.found.err \notin {NilErr, NoAuthRecordError, SqlErrNoRows}) =>
               /\ wcall.calls = <<"FindAuthRecordByCode">>
               /\ wcall.err = "find user by code failed"
        /\ Len(wcall.calls) >= 2 =>
               /\ wcall.asked.found.err \in {NilErr, NoAuthRecordError, SqlErrNoRows}
               /\ wcall.asked.found.record = <<>>
        /\ Len(wcall.calls) >= 3 => wcall.asked.tokenErr = NilErr
        /\ Len(wcall.calls) >= 4 => wcall.asked.infoErr = NilErr

\* A callback that went all the way: the lookup said NoAuthRecordError and
\* Save was reached
C23_Witness ==
    /\ CallbackCall
    /\ wcall.asked.found.err = NoAuthRecordError
    /\ wcall.calls = ExchangeOrder
    /\ wcall.err = NilErr

\* C24: a callback whose exchange fails is answered 400 with the message
\* "fetch wechat user failed" whatever the cause, which is only logged;
\* ModifyAuthRecord is not called and no auth response is produced.  A
\* callback whose exchange succeeds calls ModifyAuthRecord exactly once, on
\* the record of the exchange, and then produces the auth response.
C24_FixedMessageOrModifiedRecord ==
    CallbackCall =>
        LET events == wcall.resp.events
            at(e)  == {i \in 1..Len(events) : events[i] = e}
        IN  /\ wcall.err # NilErr =>
                   /\ wcall.resp.status = StatusBadRequest
                   /\ wcall.resp.data = "fetch wechat user failed"
                   /\ wcall.resp.logged = wcall.err
                   /\ at("ModifyAuthRecord") = {}
                   /\ at("RecordAuthResponse") = {}
                   /\ wcall.resp.record = <<>>
            /\ wcall.err = NilErr =>
                   /\ Cardinality(at("ModifyAuthRecord")) = 1
                   /\ at("RecordAuthResponse") = {Len(events)}
                   /\ at("ModifyAuthRecord") = {Len(events) - 1}
                   /\ wcall.resp.record = wcall.record
                   /\ wcall.resp.record # <<>>

\* The example server answers a replayed code with the record, its token
\* fields hidden
C24_Witness ==
    /\ wcall.op = "exchangeWechatAuthInfo"
    /\ wcall.err = NilErr
    /\ wcall.resp.status = StatusOK
    /\ wcall.resp.record = wcall.record
    /\ FieldLastAuthCode \in wcall.resp.hidden

-----------------------------------------------------------------------------
(* The registry as a whole; the method descriptors                         *)

\* C25: RegisterService(n, X) changes the registry entry for n only: the
\* descriptors under the other names stay as they are, instance and method
\* table; requests leave the registry alone, so that it holds one
\* descriptor for each name registered so far; and every descriptor's
\* serviceName is the name it is stored under.
C25_RegisterChangesOneEntry ==
    /\ [](\A n \in DOMAIN services : services[n].serviceName = n)
    /\ [][last'.op = "register" =>
              /\ DOMAIN services' = DOMAIN services \cup {last'.serv}
              /\ \A k \in DOMAIN services \ {last'.serv} : services'[k] = services[k]]_vars
    /\ [][last'.op # "register" => services' = services]_vars

\* Two names have been registered with different instances, the second
\* after the first
C25_Witness ==
    /\ last.op = "register"
    /\ replaced = <<>>
    /\ DOMAIN services = ServiceNames
    /\ \E n \in DOMAIN services \ {last.serv} :
           /\ services[n].service # last.instance
           /\ services[n].methods # services[last.serv].methods

\* The method the instance of a descriptor declares under the name n
Declared(svc, n) == CHOOSE op \in DeclaredMethods(svc.service) : op.name = n

\* C26: every method descriptor of the registry is stored under the
\* declared name of its operation, in its exact casing; HasParams says
\* whether the operation takes one parameter; Type is nil exactly when
\* HasParams is false; HasResult says whether the operation returns two
\* values, a result and a failure.
C26_DescriptorMatchesDeclaration ==
    \A s \in DOMAIN services :
        \A n \in DOMAIN services[s].methods :
            LET m == services[s].methods[n]
            IN  /\ m.Method = n
                /\ \E op \in DeclaredMethods(services[s].service) : op.name = n
                /\ m.HasParams <=> Len(Declared(services[s], n).ins) - 1 = 1
                /\ m.Type = NilType <=> ~ m.HasParams
                /\ m.HasParams => m.Type = Declared(services[s], n).ins[2]
                /\ m.HasResult <=> Len(Declared(services[s], n).outs) = 2
                /\ m.HasResult => Declared(services[s], n).outs[2].isError

\* The registry holds all four shapes of method: with and without a
\* parameter, with and without a result
C26_Witness ==
    \A hasParams \in BOOLEAN, hasResult \in BOOLEAN :
        \E s \in DOMAIN services :
            \E n \in DOMAIN services[s].methods :
                /\ services[s].methods[n].HasParams = hasParams
                /\ services[s].methods[n].HasResult = hasResult

-----------------------------------------------------------------------------
(* Package wechat: the API token and its process-wide cache                *)

\* The WechatAuth values of the model: two applications
WechatAuths == { [AppID |-> "appA", Secret |-> "sA"],
                 [AppID |-> "appB", Secret |-> "sB"] }

\* The API tokens the identity provider issues to an application
ApiTokens(appID) == IF appID = "appA" THEN {"a1", "a2"} ELSE {"b1"}

\* expires_in of the answers, in seconds, of the size the provider sends
\* (ExpiresIn-60 does not wrap around); a missing field decodes as 0
Expiries == {0, 61, 62}

\* What http.Get(api_token_url?grant_type=client_credential&appid=..&secret=..)
\* may bring back for the credentials of w: a transport error, a status
\* other than 200, a body that is not JSON, a JSON body without
\* access_token (the provider's errcode answer), or a token of w's application
ApiAnswers(w) ==
    LET answer(transport, status, decodable, token, expires) ==
            [transport |-> transport, status |-> status, decodable |-> decodable,
             AccessToken |-> token, ExpiresIn |-> expires]
    IN  { answer("dial error", 0, FALSE, "", 0),
          answer(NilErr, StatusInternalServerError, FALSE, "", 0),
          answer(NilErr, StatusOK, FALSE, "", 0),
          answer(NilErr, StatusOK, TRUE, "", 0) }
        \cup { answer(NilErr, StatusOK, TRUE, t, e) :
                   t \in ApiTokens(w.AppID), e \in Expiries }

\* (w *WechatAuth) FetchApiToken(): the *ApiTokenResponse (<<>> for nil) and
\* the error
FetchApiToken(w, answer) ==
    IF answer.transport # NilErr
    THEN [token |-> <<>>, err |-> answer.transport]
    ELSE IF answer.status # StatusOK
    THEN [token |-> <<>>, err |-> "request wechat api failed: status"]
    ELSE IF ~ answer.decodable
    THEN [token |-> <<>>, err |-> "decode response body failed"]
    ELSE IF answer.AccessToken = ""
    THEN [token |-> <<>>, err |-> "request wechat api failed: token is empty"]
    ELSE [token |-> <<[AccessToken |-> answer.AccessToken,
                       ExpiresIn |-> answer.ExpiresIn]>>,
          err |-> NilErr]

\* Mutant of getApiToken: the 60 seconds buffer is left out of the expiry check
getApiTokenNoBuffer(cache, cacheTime, clock, w, answer, took) ==
    IF cache # <<>> /\ clock - cacheTime < cache[1].ExpiresIn
    THEN [cache |-> cache, cacheTime |-> cacheTime, now |-> clock,
          token |-> cache, err |-> NilErr, fetches |-> <<>>]
    ELSE LET fetched == FetchApiToken(w, answer)
             after   == clock + took
         IN  IF fetched.err # NilErr
             THEN [cache |-> cache, cacheTime |-> cacheTime, now |-> after,
                   token |-> <<>>, err |-> fetched.err, fetches |-> <<w>>]
             ELSE [cache |-> fetched.token, cacheTime |-> after, now |-> after,
                   token |-> fetched.token, err |-> NilErr, fetches |-> <<w>>]

\* Mutant of getApiToken: a failed fetch drops the token that was cached
getApiTokenDropOnError(cache, cacheTime, clock, w, answer, took) ==
    IF cache # <<>> /\ clock - cacheTime < Wrap(cache[1].ExpiresIn - 60)
    THEN [cache |-> cache, cacheTime |-> cacheTime, now |-> clock,
          token |-> cache, err |-> NilErr, fetches |-> <<>>]
    ELSE LET fetched == FetchApiToken(w, answer)
             after   == clock + took
         IN  IF fetched.err # NilErr
             THEN [cache |-> <<>>, cacheTime |-> cacheTime, now |-> after,
                   token |-> <<>>, err |-> fetched.err, fetches |-> <<w>>]
             ELSE [cache |-> fetched.token, cacheTime |-> after, now |-> after,
                   token |-> fetched.token, err |-> NilErr, fetches |-> <<w>>]

\* (w *WechatAuth) getApiToken() called at time clock, on the globals
\* apiTokenCache and apiTokenCacheTime; the fetch, if there is one, is
\* answered with answer after took seconds.  time.Since reads the monotonic
\* clock; ExpiresIn-60 is a subtraction of ints.  The result: the globals
\* and the clock afterwards, the token and the error returned, and the
\* credentials of the fetches made.
getApiToken(cache, cacheTime, clock, w, answer, took) ==
    IF cache # <<>> /\ clock - cacheTime < Wrap(cache[1].ExpiresIn - 60)
    THEN [cache |-> cache, cacheTime |-> cacheTime, now |-> clock,
          token |-> cache, err |-> NilErr, fetches |-> <<>>]
    ELSE LET fetched == FetchApiToken(w, answer)
             after   == clock + took
         IN  IF fetched.err # NilErr
             THEN [cache |-> cache, cacheTime |-> cacheTime, now |-> after,
                   token |-> <<>>, err |-> fetched.err, fetches |-> <<w>>]
             ELSE [cache |-> fetched.token, cacheTime |-> after, now |-> after,
                   token |-> fetched.token, err |-> NilErr, fetches |-> <<w>>]

\* What the template message endpoint may answer: nil for errcode 0
PostAnswers == {NilErr, "request wechat api failed: status",
                "send template message failed"}

\* (w *WechatAuth) SendTemplateMessage(openid, templateId, url, data): the
\* result of getApiToken, the access_token of the POST ("" if none was
\* sent) and the error returned
SendTemplateMessage(cache, cacheTime, clock, w, answer, took, postAnswer) ==
    LET apiToken == getApiToken(cache, cacheTime, clock, w, answer, took)
    IN  IF apiToken.err # NilErr
        THEN [apiToken |-> apiToken, posted |-> "", err |-> apiToken.err]
        ELSE [apiToken |-> apiToken, posted |-> apiToken.token[1].AccessToken,
              err |-> postAnswer]

\* The clock stops at MaxTime; a fetch takes up to a second
MaxTime == 3
Delays == {0, 1}

NoTokenCall ==
    [op |-> "none", w |-> [AppID |-> "", Secret |-> ""], at |-> 0, done |-> 0,
     before |-> <<>>, beforeTime |-> 0, answer |-> <<>>, token |-> <<>>,
     tokenErr |-> NilErr, fetches |-> <<>>, posted |-> "", err |-> NilErr]

\* The process starts: no token cached, the zero time.Time
TokenInit ==
    /\ apiTokenCache = <<>>
    /\ apiTokenCacheTime = 0
    /\ now = 0
    /\ tcall = NoTokenCall
    /\ services = NoServices
    /\ last = NoCall
    /\ replaced = <<>>
    /\ kebab = <<>>
    /\ pascal = NotCalled
    /\ ConcIdle /\ DslIdle /\ StoreIdle

TokenFrame == UNCHANGED <<rpcVars, kebabVars, concVars, dslVars, storeVars>>

\* A second passes
Tick ==
    /\ now < MaxTime
    /\ now' = now + 1
    /\ UNCHANGED <<apiTokenCache, apiTokenCacheTime, tcall>>
    /\ TokenFrame

\* The call that was made on w, with what getApiToken did in it
TokenCalled(op, w, answer, r, posted, err) ==
    [op |-> op, w |-> w, at |-> now, done |-> r.now, before |-> apiTokenCache,
     beforeTime |-> apiTokenCacheTime,
     answer |-> IF r.fetches = <<>> THEN <<>> ELSE <<answer>>,
     token |-> r.token, tokenErr |-> r.err, fetches |-> r.fetches,
     posted |-> posted, err |-> err]

\* w.getApiToken()
TokenGet(w) ==
    \E answer \in ApiAnswers(w), took \in Delays :
        LET r == getApiToken(apiTokenCache, apiTokenCacheTime, now, w, answer, took)
        IN  /\ r.now <= MaxTime
            /\ apiTokenCache' = r.cache
            /\ apiTokenCacheTime' = r.cacheTime
            /\ now' = r.now
            /\ tcall' = TokenCalled("getApiToken", w, answer, r, "", r.err)
            /\ TokenFrame

\* w.FetchApiToken(), called from outside the package
TokenFetch(w) ==
    \E answer \in ApiAnswers(w), took \in Delays :
        LET r == FetchApiToken(w, answer)
        IN  /\ now + took <= MaxTime
            /\ now' = now + took
            /\ tcall' = [NoTokenCall EXCEPT !.op = "FetchApiToken", !.w = w, !.at = now,
                             !.done = now + took, !.before = apiTokenCache,
                             !.beforeTime = apiTokenCacheTime, !.answer = <<answer>>,
                             !.token = r.token, !.tokenErr = r.err,
                             !.fetches = <<w>>, !.err = r.err]
            /\ UNCHANGED <<apiTokenCache, apiTokenCacheTime>>
            /\ TokenFrame

\* w.SendTemplateMessage(...)
TokenSend(w) ==
    \E answer \in ApiAnswers(w), took \in Delays, postAnswer \in PostAnswers :
        LET r == SendTemplateMessage(apiTokenCache, apiTokenCacheTime, now, w,
                                     answer, took, postAnswer)
        IN  /\ r.apiToken.now <= MaxTime
            /\ apiTokenCache' = r.apiToken.cache
            /\ apiTokenCacheTime' = r.apiToken.cacheTime
            /\ now' = r.apiToken.now
            /\ tcall' = TokenCalled("SendTemplateMessage", w, answer, r.apiToken,
                                    r.posted, r.err)
            /\ TokenFrame

TokenNext ==
    \/ Tick
    \/ \E w \in WechatAuths : TokenGet(w)
    \/ \E w \in WechatAuths : TokenFetch(w)
    \/ \E w \in WechatAuths : TokenSend(w)

SpecToken == TokenInit /\ [][TokenNext]_vars

\* The last call went through getApiToken
ThroughGetApiToken == tcall.op \in {"getApiToken", "SendTemplateMessage"}

\* When the call began a token was cached and fewer than ExpiresIn - 60
\* seconds had passed since it was cached
CachedAndFresh ==
    /\ tcall.before # <<>>
    /\ tcall.at - tcall.beforeTime < tcall.before[1].ExpiresIn - 60

\* C21: getApiToken returns the cached token without a fetch exactly when
\* a token is cached and fewer than ExpiresIn - 60 seconds have passed
\* since it was cached; otherwise it fetches exactly once, and a fetch
\* that succeeds replaces the cached token and the cache time and its token
\* is returned.  No token is served from the cache ExpiresIn - 60 seconds
\* or more after it was cached.
C21_CachedExactlyWhileFresh ==
    ThroughGetApiToken =>
        /\ CachedAndFresh <=> tcall.fetches = <<>>
        /\ tcall.fetches = <<>> =>
               /\ tcall.tokenErr = NilErr
               /\ tcall.token = tcall.before
               /\ apiTokenCache = tcall.before
               /\ apiTokenCacheTime = tcall.beforeTime
               /\ tcall.at - tcall.beforeTime < tcall.token[1].ExpiresIn - 60
        /\ tcall.fetches # <<>> =>
               /\ Len(tcall.fetches) = 1
               /\ tcall.tokenErr = NilErr =>
                      /\ tcall.token = <<[AccessToken |-> tcall.answer[1].AccessToken,
                                          ExpiresIn |-> tcall.answer[1].ExpiresIn]>>
                      /\ apiTokenCache = tcall.token
                      /\ apiTokenCacheTime = tcall.done

\* A cached token is fetched anew at the very second its buffer begins, and
\* the token fetched takes its place
C21_Witness ==
    /\ tcall.op = "getApiToken"
    /\ tcall.before # <<>>
    /\ tcall.at - tcall.beforeTime = tcall.before[1].ExpiresIn - 60
    /\ tcall.fetches # <<>>
    /\ tcall.tokenErr = NilErr
    /\ apiTokenCache # tcall.before

\* C28: the token cache is written only by getApiToken after a fetch that
\* succeeded: a step changes the cached token or the cache time only if it
\* is a call through getApiToken whose fetch brought a token; a call in
\* which getApiToken returns an error leaves both as they were; and a
\* cached token always has a non-empty access token.
C28_CacheWrittenOnSuccessOnly ==
    /\ [](apiTokenCache # <<>> => apiTokenCache[1].AccessToken # "")
    /\ [][(apiTokenCache' # apiTokenCache \/ apiTokenCacheTime' # apiTokenCacheTime) =>
              /\ tcall'.op \in {"getApiToken", "SendTemplateMessage"}
              /\ tcall'.fetches # <<>>
              /\ tcall'.tokenErr = NilErr]_vars
    /\ [][(tcall'.op \in {"getApiToken", "SendTemplateMessage"}
             /\ tcall'.tokenErr # NilErr) =>
              /\ apiTokenCache' = apiTokenCache
              /\ apiTokenCacheTime' = apiTokenCacheTime]_vars

\* getApiToken found the cached token too old, the fetch failed, and the
\* old token is still cached
C28_Witness ==
    /\ tcall.op = "getApiToken"
    /\ tcall.before # <<>>
    /\ tcall.fetches # <<>>
    /\ tcall.tokenErr # NilErr
    /\ apiTokenCache = tcall.before
    /\ apiTokenCacheTime = tcall.beforeTime

\* C29 (as claimed): a token that getApiToken returns to a WechatAuth, and
\* the token its SendTemplateMessage sends, was issued for that WechatAuth's
\* own AppID and Secret.
C29_TokenOfOwnCredentials ==
    (ThroughGetApiToken /\ tcall.token # <<>>) =>
        /\ tcall.token[1].AccessToken \in ApiTokens(tcall.w.AppID)
        /\ tcall.op = "SendTemplateMessage" => tcall.posted \in ApiTokens(tcall.w.AppID)

-----------------------------------------------------------------------------
(* C30: from a method name to its slug and back                            *)

\* An identifier that begins with an uppercase ASCII letter and consists of
\* ASCII letters and digits
IsIdentifier(s) ==
    /\ s # <<>>
    /\ s[1] \in UpperAscii
    /\ \A i \in 1..Len(s) : s[i] \in LowerAscii \cup UpperAscii \cup {"4", "2"}

\* The slug of an identifier: a hyphen before each uppercase letter after
\* the first, every letter lower-cased
RECURSIVE SlugOf(_)
SlugOf(id) ==
    IF id = <<>> THEN <<>>
    ELSE LET n == Len(id)
             front == SlugOf(SubSeq(id, 1, n - 1))
         IN  IF n > 1 /\ id[n] \in UpperAscii
             THEN front \o <<"-", asciiLower[id[n]]>>
             ELSE front \o <<asciiLower[id[n]]>>

\* C30: when the slug handed to kebabToPascal is the slug of an identifier
\* that begins with an uppercase ASCII letter and consists of ASCII letters
\* and digits, the result is exactly that identifier, which is the key the
\* method is stored under.
C30_SlugConvertsBackToIdentifier ==
    pascal.called =>
        \A id \in KebabInputs :
            (IsIdentifier(id) /\ kebab = SlugOf(id)) => pascal.result = id

\* C30 witness: the slug of an identifier of two words with a digit was
\* converted
C30_Witness ==
    /\ pascal.called
    /\ kebab = SlugOf(<<"A", "2", "A">>)
    /\ pascal.result = <<"A", "2", "A">>

=============================================================================
